---------------------------- MODULE Spec2Model ----------------------------
(***************************************************************************)
(* A model of the weather application of dsprog2_2025:                     *)
(*   lecture-5/weather_app/src/mfin.py            (variant "mfin")         *)
(*   lecture-5_dbver/weather_app/src/rewrite_.py  (variant "dbver")        *)
(*   lecture-5_dbver/weather_app/src/db_manager.py                         *)
(*                                                                         *)
(* Conventions.                                                            *)
(*  - A Python call that may raise is an operator returning a record       *)
(*    [exc |-> e, val |-> v]: exc = "" when the call returned v, and the   *)
(*    name of the exception otherwise.                                     *)
(*  - A Python dict is a function whose DOMAIN is the set of its keys; a   *)
(*    Python list is a sequence (Python index i is TLA+ index i + 1).      *)
(*  - A JSON string holding a number ("100", "-5") is the sequence of its  *)
(*    characters, so that int() is a computation.                          *)
(*  - The lexer accepts no Japanese text in a string, so the Japanese      *)
(*    literals of the source are written in romaji:                        *)
(*      "hare" = 晴れ, "kumori" = くもり, "ame" = 雨, "yuki" = 雪,          *)
(*      "Tokyo-to" = 東京都, "Osaka-fu" = 大阪府, "Sapporo" = 札幌,         *)
(*      "Okinawa" = 沖縄.                                                  *)
(***************************************************************************)
EXTENDS Integers, Sequences, FiniteSets, TLC

VARIABLES
    variant,         \* which program runs: "dbver" (rewrite_.py) or "mfin" (mfin.py)
    in_code,         \* argument of the two weather-code functions
    icon_color,      \* outcome of _get_weather_icon_and_color(code)
    status_text,     \* outcome of _get_weather_status_text(code)
    in_weekly_temps, \* arguments of _format_temperature: the subregion's weekly entry,
    in_short_temps,  \*   its short-term temperature list,
    in_time_index,   \*   and the step
    display_temp,    \* outcome of _format_temperature
    in_raw_json,     \* argument of _parse_jma_data: the forecast document
    parsed_result,   \* outcome of _parse_jma_data
    cache_file,      \* the file area.json: Absent, Unreadable or Readable(content)
    area_net,        \* the answer to the registry request of _load_area_data, if any
    load_pc,         \* "start" before _load_area_data has run, "loaded" after
    area_name_list,  \* DataManager.area_name_list
    name_to_id,      \* DataManager.name_to_id
    weather_data,    \* DataManager.weather_data, the in-memory cache
    weather_history, \* the rows of table weather_history, in insertion order
    history_seq,     \* the highest id the table has given out (AUTOINCREMENT)
    now,             \* the clock datetime.now() reads
    last_call,       \* the handler run by the last step and its inputs
    ret,             \* what fetch_weather_data returned in that step
    saved_areas,     \* the rows of table saved_areas, in insertion (rowid) order
    current_saved_regions, \* WeatherApp.current_saved_regions
    current_region_text,   \* WeatherApp.current_region_text.value
    weather_list_view,     \* WeatherApp.weather_list_view.controls
    date_filter_dd,  \* WeatherApp.date_filter_dd: value, disabled, options
    trace,           \* what the handler of the last step did, in order
    app_pc,          \* "start" before WeatherApp.__init__ has run, "running" after
    db_ret,          \* what the last call of a WeatherDB method returned
    purge_log        \* per region: saves since the last purge, rows it kept

codeVars == <<in_code, icon_color, status_text>>

tempVars == <<in_weekly_temps, in_short_temps, in_time_index, display_temp>>

parseVars == <<in_raw_json, parsed_result>>

registryVars == <<cache_file, area_net, load_pc, area_name_list, name_to_id>>

appVars == <<weather_data, weather_history, history_seq, now, last_call, ret>>

uiVars == <<saved_areas, current_saved_regions, current_region_text, weather_list_view,
            date_filter_dd, trace, app_pc>>

storeVars == <<db_ret, purge_log>>

vars == <<variant, codeVars, tempVars, parseVars, registryVars, appVars, uiVars, storeVars>>

Variants == {"dbver", "mfin"}

(***************************************************************************)
(* Bounds of the model.                                                    *)
(***************************************************************************)
MaxCodeLen == 3

MaxSteps == 2

MaxShort == 2

MaxAreas == 2

MaxOffices == 2

MaxTime == 4

(***************************************************************************)
(* Python values.                                                          *)
(***************************************************************************)
Ret(v) == [exc |-> "", val |-> v]

Raise(e, v) == [exc |-> e, val |-> v]

Pending(v) == [exc |-> "pending", val |-> v]

Returned(r) == r.exc = ""

Raised(r) == r.exc \notin {"", "pending"}

\* A JSON scalar: a string, an integer or null.
JStr(s) == [t |-> "str", s |-> s]

JInt(n) == [t |-> "int", n |-> n]

JNull == [t |-> "null"]

\* bool(v)
Truthy(v) ==
    CASE v.t = "str" -> v.s # ""
      [] v.t = "int" -> v.n # 0
      [] OTHER -> FALSE

\* str(v), as an f-string formats v
PyStr(v) ==
    CASE v.t = "str" -> v.s
      [] v.t = "int" -> ToString(v.n)
      [] OTHER -> "None"

\* All sequences over S of length at most n.
BSeq(S, n) == UNION {[1..k -> S] : k \in 0..n}

Min(a, b) == IF a <= b THEN a ELSE b

(***************************************************************************)
(* int(code) for a string of the characters below: an optional minus sign  *)
(* followed by one or more decimal digits, anything else is a ValueError.  *)
(***************************************************************************)
DigitChars == <<"0", "1", "2", "3", "4", "5", "6", "7", "8", "9">>

CodeChars == {DigitChars[i] : i \in 1..10} \cup {"-", "x"}

IsDigit(ch) == \E i \in 1..10 : DigitChars[i] = ch

DigitVal(ch) == (CHOOSE i \in 1..10 : DigitChars[i] = ch) - 1

RECURSIVE DecimalVal(_)
DecimalVal(s) ==
    IF s = <<>> THEN 0
    ELSE 10 * DecimalVal(SubSeq(s, 1, Len(s) - 1)) + DigitVal(s[Len(s)])

AllDigits(s) == s # <<>> /\ \A i \in 1..Len(s) : IsDigit(s[i])

PyInt(s) ==
    IF AllDigits(s) THEN Ret(DecimalVal(s))
    ELSE IF s # <<>> /\ s[1] = "-" /\ AllDigits(Tail(s)) THEN Ret(0 - DecimalVal(Tail(s)))
    ELSE Raise("ValueError", 0)

(***************************************************************************)
(* The weather-code functions.  An icon/color pair is written with the     *)
(* names of flet's Icons and Colors members.                               *)
(***************************************************************************)
\* rewrite_.py: int(code) is outside any try, so a ValueError propagates.
_get_weather_icon_and_color_off_by_one(code) ==
    LET c == PyInt(code) IN
    IF c.exc # "" THEN Raise(c.exc, <<"", "">>)
    ELSE IF 100 <= c.val /\ c.val <= 200 THEN Ret(<<"WB_SUNNY", "ORANGE">>)
    ELSE IF 200 <= c.val /\ c.val < 300 THEN Ret(<<"CLOUD", "GREY">>)
    ELSE IF 300 <= c.val /\ c.val < 400 THEN Ret(<<"WATER_DROP", "BLUE">>)
    ELSE IF 400 <= c.val /\ c.val < 500 THEN Ret(<<"AC_UNIT", "CYAN">>)
    ELSE Ret(<<"HELP_OUTLINE", "GREY">>)

_get_weather_icon_and_color(code) ==
    LET c == PyInt(code) IN
    IF c.exc # "" THEN Raise(c.exc, <<"", "">>)
    ELSE IF 100 <= c.val /\ c.val < 200 THEN Ret(<<"WB_SUNNY", "ORANGE">>)
    ELSE IF 200 <= c.val /\ c.val < 300 THEN Ret(<<"CLOUD", "GREY">>)
    ELSE IF 300 <= c.val /\ c.val < 400 THEN Ret(<<"WATER_DROP", "BLUE">>)
    ELSE IF 400 <= c.val /\ c.val < 500 THEN Ret(<<"AC_UNIT", "CYAN">>)
    ELSE Ret(<<"HELP_OUTLINE", "GREY">>)

\* rewrite_.py: the whole body is in try / except, which returns "-".
_get_weather_status_text(code) ==
    LET c == PyInt(code) IN
    IF c.exc # "" THEN Ret("-")
    ELSE IF 100 <= c.val /\ c.val < 200 THEN Ret("hare")
    ELSE IF 200 <= c.val /\ c.val < 300 THEN Ret("kumori")
    ELSE IF 300 <= c.val /\ c.val < 400 THEN Ret("ame")
    ELSE IF 400 <= c.val /\ c.val < 500 THEN Ret("yuki")
    ELSE Ret("-")

\* mfin.py
_get_jma_icon_and_color(code) ==
    LET c == PyInt(code) IN
    IF c.exc # "" THEN Raise(c.exc, <<"", "">>)
    ELSE IF 100 <= c.val /\ c.val < 200 THEN Ret(<<"WB_SUNNY", "ORANGE">>)
    ELSE IF 200 <= c.val /\ c.val < 300 THEN Ret(<<"CLOUD", "GREY">>)
    ELSE IF 300 <= c.val /\ c.val < 400 THEN Ret(<<"WATER_DROP", "BLUE">>)
    ELSE IF 400 <= c.val /\ c.val < 500 THEN Ret(<<"AC_UNIT", "CYAN">>)
    ELSE Ret(<<"HELP_OUTLINE", "GREY">>)

\* mfin.py
_get_jma_status_text(code) ==
    LET c == PyInt(code) IN
    IF c.exc # "" THEN Ret("-")
    ELSE IF 100 <= c.val /\ c.val < 200 THEN Ret("hare")
    ELSE IF 200 <= c.val /\ c.val < 300 THEN Ret("kumori")
    ELSE IF 300 <= c.val /\ c.val < 400 THEN Ret("ame")
    ELSE IF 400 <= c.val /\ c.val < 500 THEN Ret("yuki")
    ELSE Ret("-")

\* The function of the running variant.
IconAndColor(v, code) ==
    IF v = "dbver" THEN _get_weather_icon_and_color(code) ELSE _get_jma_icon_and_color(code)

StatusText(v, code) ==
    IF v = "dbver" THEN _get_weather_status_text(code) ELSE _get_jma_status_text(code)

(***************************************************************************)
(* The display temperature.  weekly_temps is None, written                 *)
(* [type |-> "None"], or one entry of weekly_temp_data:                    *)
(*   [type |-> "weekly", mins |-> tempsMin, maxs |-> tempsMax] or          *)
(*   [type |-> "daily", temps |-> temps].                                  *)
(***************************************************************************)
Degree == "°C"

\* rewrite_.py with the step-0 branch left out: a mutant of _format_temperature.
_format_temperature_no_fallback(weekly_temps, short_temps, time_index) ==
    IF weekly_temps.type = "None" THEN Ret("--")
    ELSE IF weekly_temps.type = "weekly" THEN
        IF time_index >= Len(weekly_temps.mins) \/ time_index >= Len(weekly_temps.maxs)
        THEN Raise("IndexError", "")
        ELSE LET min_v == weekly_temps.mins[time_index + 1]
                 max_v == weekly_temps.maxs[time_index + 1]
             IN  IF Truthy(min_v) /\ Truthy(max_v)
                 THEN Ret(PyStr(min_v) \o "-" \o PyStr(max_v) \o Degree)
                 ELSE IF Truthy(max_v) \/ Truthy(min_v)
                 THEN Ret(PyStr(IF Truthy(max_v) THEN max_v ELSE min_v) \o Degree)
                 ELSE Ret("--")
    ELSE IF weekly_temps.type = "daily" THEN
        IF time_index >= Len(weekly_temps.temps) THEN Raise("IndexError", "")
        ELSE LET val == weekly_temps.temps[time_index + 1]
             IN  IF Truthy(val) THEN Ret(PyStr(val) \o Degree) ELSE Ret("--")
    ELSE Ret("--")

\* rewrite_.py with a length test before each index, "--" when it fails: a
\* mutant of _format_temperature.
_format_temperature_lenient(weekly_temps, short_temps, time_index) ==
    IF weekly_temps.type = "None" THEN Ret("--")
    ELSE IF weekly_temps.type = "weekly" THEN
        IF time_index >= Len(weekly_temps.mins) \/ time_index >= Len(weekly_temps.maxs)
        THEN Ret("--")
        ELSE LET min_v == weekly_temps.mins[time_index + 1]
                 max_v == weekly_temps.maxs[time_index + 1]
             IN  IF (min_v = JStr("") \/ max_v = JStr("")) /\ time_index = 0
                 THEN IF Len(short_temps) >= 2
                      THEN Ret(PyStr(short_temps[1]) \o "-" \o PyStr(short_temps[2]) \o Degree)
                      ELSE IF Len(short_temps) = 1
                      THEN Ret(PyStr(short_temps[1]) \o Degree)
                      ELSE Ret("--")
                 ELSE IF Truthy(min_v) /\ Truthy(max_v)
                      THEN Ret(PyStr(min_v) \o "-" \o PyStr(max_v) \o Degree)
                      ELSE IF Truthy(max_v) \/ Truthy(min_v)
                      THEN Ret(PyStr(IF Truthy(max_v) THEN max_v ELSE min_v) \o Degree)
                      ELSE Ret("--")
    ELSE IF weekly_temps.type = "daily" THEN
        IF time_index >= Len(weekly_temps.temps) THEN Ret("--")
        ELSE LET val == weekly_temps.temps[time_index + 1]
             IN  IF Truthy(val) THEN Ret(PyStr(val) \o Degree) ELSE Ret("--")
    ELSE Ret("--")

\* rewrite_.py without the test of val in the daily branch: a mutant of
\* _format_temperature.
_format_temperature_daily_untested(weekly_temps, short_temps, time_index) ==
    IF weekly_temps.type = "None" THEN Ret("--")
    ELSE IF weekly_temps.type = "weekly" THEN
        IF time_index >= Len(weekly_temps.mins) \/ time_index >= Len(weekly_temps.maxs)
        THEN Raise("IndexError", "")
        ELSE LET min_v == weekly_temps.mins[time_index + 1]
                 max_v == weekly_temps.maxs[time_index + 1]
             IN  IF (min_v = JStr("") \/ max_v = JStr("")) /\ time_index = 0
                 THEN IF Len(short_temps) >= 2
                      THEN Ret(PyStr(short_temps[1]) \o "-" \o PyStr(short_temps[2]) \o Degree)
                      ELSE IF Len(short_temps) = 1
                      THEN Ret(PyStr(short_temps[1]) \o Degree)
                      ELSE Ret("--")
                 ELSE IF Truthy(min_v) /\ Truthy(max_v)
                      THEN Ret(PyStr(min_v) \o "-" \o PyStr(max_v) \o Degree)
                      ELSE IF Truthy(max_v) \/ Truthy(min_v)
                      THEN Ret(PyStr(IF Truthy(max_v) THEN max_v ELSE min_v) \o Degree)
                      ELSE Ret("--")
    ELSE IF weekly_temps.type = "daily" THEN
        IF time_index >= Len(weekly_temps.temps) THEN Raise("IndexError", "")
        ELSE Ret(PyStr(weekly_temps.temps[time_index + 1]) \o Degree)
    ELSE Ret("--")

\* rewrite_.py, DataManager._format_temperature
_format_temperature(weekly_temps, short_temps, time_index) ==
    IF weekly_temps.type = "None" THEN Ret("--")
    ELSE IF weekly_temps.type = "weekly" THEN
        IF time_index >= Len(weekly_temps.mins) \/ time_index >= Len(weekly_temps.maxs)
        THEN Raise("IndexError", "")
        ELSE LET min_v == weekly_temps.mins[time_index + 1]
                 max_v == weekly_temps.maxs[time_index + 1]
             IN  IF (min_v = JStr("") \/ max_v = JStr("")) /\ time_index = 0
                 THEN IF Len(short_temps) >= 2
                      THEN Ret(PyStr(short_temps[1]) \o "-" \o PyStr(short_temps[2]) \o Degree)
                      ELSE IF Len(short_temps) = 1
                      THEN Ret(PyStr(short_temps[1]) \o Degree)
                      ELSE Ret("--")
                 ELSE IF Truthy(min_v) /\ Truthy(max_v)
                      THEN Ret(PyStr(min_v) \o "-" \o PyStr(max_v) \o Degree)
                      ELSE IF Truthy(max_v) \/ Truthy(min_v)
                      THEN Ret(PyStr(IF Truthy(max_v) THEN max_v ELSE min_v) \o Degree)
                      ELSE Ret("--")
    ELSE IF weekly_temps.type = "daily" THEN
        IF time_index >= Len(weekly_temps.temps) THEN Raise("IndexError", "")
        ELSE LET val == weekly_temps.temps[time_index + 1]
             IN  IF Truthy(val) THEN Ret(PyStr(val) \o Degree) ELSE Ret("--")
    ELSE Ret("--")

\* mfin.py, the display_temp computation inlined in _parse_jma_data: the last
\* else has no test of its own, so two empty values give "°C".
mfin_display_temp(current_weekly_temps, current_short_temps, i_time) ==
    IF current_weekly_temps.type = "None" THEN Ret("--")
    ELSE IF current_weekly_temps.type = "weekly" THEN
        IF i_time >= Len(current_weekly_temps.mins) \/ i_time >= Len(current_weekly_temps.maxs)
        THEN Raise("IndexError", "")
        ELSE LET min_v == current_weekly_temps.mins[i_time + 1]
                 max_v == current_weekly_temps.maxs[i_time + 1]
             IN  IF (min_v = JStr("") \/ max_v = JStr("")) /\ i_time = 0
                 THEN IF current_short_temps # <<>>
                      THEN IF Len(current_short_temps) >= 2
                           THEN Ret(PyStr(current_short_temps[1]) \o "-"
                                    \o PyStr(current_short_temps[2]) \o Degree)
                           ELSE Ret(PyStr(current_short_temps[1]) \o Degree)
                      ELSE Ret("--")
                 ELSE IF Truthy(min_v) /\ Truthy(max_v)
                      THEN Ret(PyStr(min_v) \o "-" \o PyStr(max_v) \o Degree)
                      ELSE Ret(PyStr(IF Truthy(max_v) THEN max_v ELSE min_v) \o Degree)
    ELSE IF current_weekly_temps.type = "daily" THEN
        IF i_time >= Len(current_weekly_temps.temps) THEN Raise("IndexError", "")
        ELSE LET val == current_weekly_temps.temps[i_time + 1]
             IN  IF Truthy(val) THEN Ret(PyStr(val) \o Degree) ELSE Ret("--")
    ELSE Ret("--")

DisplayTemp(v, weekly_temps, short_temps, time_index) ==
    IF v = "dbver" THEN _format_temperature(weekly_temps, short_temps, time_index)
    ELSE mfin_display_temp(weekly_temps, short_temps, time_index)

(***************************************************************************)
(* The normalizer, _parse_jma_data.  The document raw_json is a sequence   *)
(* of reports; a report is a dict that may hold "timeSeries", a sequence   *)
(* of series; a series is a dict that may hold "areas" (a sequence of area *)
(* dicts) and "timeDefines"; an area dict may hold "area" (a dict that may *)
(* hold "name"), "weatherCodes", "temps", "tempsMin", "tempsMax".          *)
(*                                                                         *)
(* A timeDefines entry stands for the ISO-8601 text                        *)
(* "2025-<month>-<day>T00:00:00+09:00" and is written [month, day];        *)
(* datetime.fromisoformat raises ValueError unless the date exists.        *)
(***************************************************************************)
HasKey(d, k) == k \in DOMAIN d

\* series.get("areas") is truthy: the key is there and the list is not empty.
HasAreas(series) == HasKey(series, "areas") /\ series.areas # <<>>

DaysInMonth == <<31, 28, 31, 30, 31, 30, 31, 31, 30, 31, 30, 31>>

IsoValid(t) == t.month \in 1..12 /\ t.day \in 1..DaysInMonth[t.month]

\* f"{dt.day}/{dt.month}": a mutant of FormatDate.
FormatDate_day_first(t) == ToString(t.day) \o "/" \o ToString(t.month)

\* f"{dt.month}/{dt.day}"
FormatDate(t) == ToString(t.month) \o "/" \o ToString(t.day)

\* Lines 114-120: the temps lists of the first series of the short report
\* whose first area has "temps"; KeyError when a later area of it has none.
ShortTermTempsMap(report_short) ==
    IF ~HasKey(report_short, "timeSeries") THEN Raise("KeyError", <<>>)
    ELSE LET ts == report_short.timeSeries
             hits == {i \in 1..Len(ts) : HasAreas(ts[i]) /\ HasKey(ts[i].areas[1], "temps")}
         IN  IF hits = {} THEN Ret(<<>>)
             ELSE LET series == ts[CHOOSE i \in hits : \A j \in hits : i <= j]
                  IN  IF \E a \in 1..Len(series.areas) : ~HasKey(series.areas[a], "temps")
                      THEN Raise("KeyError", <<>>)
                      ELSE Ret([a \in 1..Len(series.areas) |-> series.areas[a].temps])

\* The first weather series is kept, not the last: a mutant of
\* WeatherSeriesIndex.
WeatherSeriesIndex_first(ts) ==
    LET hits == {i \in 1..Len(ts) : HasAreas(ts[i]) /\ HasKey(ts[i].areas[1], "weatherCodes")}
    IN  IF hits = {} THEN 0 ELSE CHOOSE i \in hits : \A j \in hits : i <= j

\* Lines 123-132: the index in the weekly report's timeSeries of the last
\* series whose first area has "weatherCodes"; 0 when there is none.
WeatherSeriesIndex(ts) ==
    LET hits == {i \in 1..Len(ts) : HasAreas(ts[i]) /\ HasKey(ts[i].areas[1], "weatherCodes")}
    IN  IF hits = {} THEN 0 ELSE CHOOSE i \in hits : \A j \in hits : j <= i

\* Lines 123-132: the index of the last series whose first area has no
\* "weatherCodes" but has "temps" or "tempsMin"; 0 when there is none.
TempSeriesIndex(ts) ==
    LET hits == {i \in 1..Len(ts) :
                    /\ HasAreas(ts[i])
                    /\ ~HasKey(ts[i].areas[1], "weatherCodes")
                    /\ (HasKey(ts[i].areas[1], "temps") \/ HasKey(ts[i].areas[1], "tempsMin"))}
    IN  IF hits = {} THEN 0 ELSE CHOOSE i \in hits : \A j \in hits : j <= i

\* Lines 138-151: one weekly_temp_data entry per area of the temperature series.
WeeklyTempEntry(area) ==
    IF HasKey(area, "tempsMin")
    THEN IF HasKey(area, "tempsMax")
         THEN Ret([type |-> "weekly", mins |-> area.tempsMin, maxs |-> area.tempsMax])
         ELSE Raise("KeyError", [type |-> "None"])
    ELSE IF HasKey(area, "temps")
         THEN Ret([type |-> "daily", temps |-> area.temps])
         ELSE Raise("KeyError", [type |-> "None"])

WeeklyTempData(ts, i_temp) ==
    IF i_temp = 0 THEN Ret(<<>>)
    ELSE LET areas == ts[i_temp].areas
         IN  IF \E a \in 1..Len(areas) : WeeklyTempEntry(areas[a]).exc # ""
             THEN Raise("KeyError", <<>>)
             ELSE Ret([a \in 1..Len(areas) |-> WeeklyTempEntry(areas[a]).val])

\* Lines 153-158
FormattedDates(ts_weather) ==
    IF ~HasKey(ts_weather, "timeDefines") THEN Raise("KeyError", <<>>)
    ELSE LET time_defines == ts_weather.timeDefines
         IN  IF \E i \in 1..Len(time_defines) : ~IsoValid(time_defines[i])
             THEN Raise("ValueError", <<>>)
             ELSE Ret([i \in 1..Len(time_defines) |-> FormatDate(time_defines[i])])

\* Lines 174-187: the entry of one step (i_time counts from 0).
ForecastEntry(v, code, formatted_dates, current_weekly_temps, current_short_temps, i_time) ==
    LET ic == IconAndColor(v, code)
        st == StatusText(v, code)
        dt == DisplayTemp(v, current_weekly_temps, current_short_temps, i_time)
    IN  IF ic.exc # "" THEN Raise(ic.exc, <<>>)
        ELSE IF dt.exc # "" THEN Raise(dt.exc, <<>>)
        ELSE Ret([day |-> formatted_dates[i_time + 1],
                  icon |-> ic.val[1],
                  status |-> st.val,
                  temp |-> dt.val,
                  color |-> ic.val[2]])

\* forecasts.append written twice, every entry is added two times: a mutant
\* of SubregionForecast.
SubregionForecast_double_append(v, area_data, i_area, formatted_dates, weekly_temp_data, short_term_temps_map) ==
    IF ~HasKey(area_data, "area") \/ ~HasKey(area_data.area, "name")
       \/ ~HasKey(area_data, "weatherCodes")
    THEN Raise("KeyError", <<>>)
    ELSE LET weather_codes == area_data.weatherCodes
             current_weekly_temps ==
                 IF i_area < Len(weekly_temp_data) THEN weekly_temp_data[i_area + 1]
                 ELSE [type |-> "None"]
             current_short_temps ==
                 IF i_area < Len(short_term_temps_map) THEN short_term_temps_map[i_area + 1]
                 ELSE <<>>
             n == Min(Len(formatted_dates), Len(weather_codes))
             entry(i_time) == ForecastEntry(v, weather_codes[i_time + 1], formatted_dates,
                                            current_weekly_temps, current_short_temps, i_time)
         IN  IF \E i_time \in 0..(n - 1) : entry(i_time).exc # ""
             THEN Raise("Exception", <<>>)
             ELSE Ret([area_name |-> area_data.area.name,
                       forecasts |-> [k \in 1..(2 * n) |-> entry((k - 1) \div 2).val]])

\* weekly_temp_data[0] for every subregion, i_area is not used: a mutant of
\* SubregionForecast.
SubregionForecast_first_temps(v, area_data, i_area, formatted_dates, weekly_temp_data, short_term_temps_map) ==
    IF ~HasKey(area_data, "area") \/ ~HasKey(area_data.area, "name")
       \/ ~HasKey(area_data, "weatherCodes")
    THEN Raise("KeyError", <<>>)
    ELSE LET weather_codes == area_data.weatherCodes
             current_weekly_temps ==
                 IF 0 < Len(weekly_temp_data) THEN weekly_temp_data[1]
                 ELSE [type |-> "None"]
             current_short_temps ==
                 IF i_area < Len(short_term_temps_map) THEN short_term_temps_map[i_area + 1]
                 ELSE <<>>
             n == Min(Len(formatted_dates), Len(weather_codes))
             entry(i_time) == ForecastEntry(v, weather_codes[i_time + 1], formatted_dates,
                                            current_weekly_temps, current_short_temps, i_time)
         IN  IF \E i_time \in 0..(n - 1) : entry(i_time).exc # ""
             THEN Raise("Exception", <<>>)
             ELSE Ret([area_name |-> area_data.area.name,
                       forecasts |-> [k \in 1..n |-> entry(k - 1).val]])

\* Lines 162-192: the SubregionForecast of the area at position i_area
\* (counted from 0) of the weather series.
SubregionForecast(v, area_data, i_area, formatted_dates, weekly_temp_data, short_term_temps_map) ==
    IF ~HasKey(area_data, "area") \/ ~HasKey(area_data.area, "name")
       \/ ~HasKey(area_data, "weatherCodes")
    THEN Raise("KeyError", <<>>)
    ELSE LET weather_codes == area_data.weatherCodes
             current_weekly_temps ==
                 IF i_area < Len(weekly_temp_data) THEN weekly_temp_data[i_area + 1]
                 ELSE [type |-> "None"]
             current_short_temps ==
                 IF i_area < Len(short_term_temps_map) THEN short_term_temps_map[i_area + 1]
                 ELSE <<>>
             n == Min(Len(formatted_dates), Len(weather_codes))
             entry(i_time) == ForecastEntry(v, weather_codes[i_time + 1], formatted_dates,
                                            current_weekly_temps, current_short_temps, i_time)
         IN  IF \E i_time \in 0..(n - 1) : entry(i_time).exc # ""
             THEN Raise("Exception", <<>>)
             ELSE Ret([area_name |-> area_data.area.name,
                       forecasts |-> [k \in 1..n |-> entry(k - 1).val]])

\* Lines 111-194, the body of the try block: Ret(list) for either return
\* statement, Raise for an exception raised anywhere before it.
ParseBody(v, raw_json) ==
    IF raw_json = <<>> THEN Raise("IndexError", <<>>)
    ELSE
    LET report_short == raw_json[1]
        report_weekly == IF Len(raw_json) > 1 THEN raw_json[2] ELSE raw_json[1]
        short == ShortTermTempsMap(report_short)
    IN  IF short.exc # "" THEN Raise(short.exc, <<>>)
        ELSE IF ~HasKey(report_weekly, "timeSeries") THEN Raise("KeyError", <<>>)
        ELSE
        LET ts == report_weekly.timeSeries
            i_weather == WeatherSeriesIndex(ts)
            i_temp == TempSeriesIndex(ts)
        IN  IF i_weather = 0 THEN Ret(<<>>)
            ELSE
            LET ts_weather == ts[i_weather]
                weekly == WeeklyTempData(ts, i_temp)
                dates == FormattedDates(ts_weather)
                sub(i) == SubregionForecast(v, ts_weather.areas[i], i - 1, dates.val,
                                            weekly.val, short.val)
            IN  IF weekly.exc # "" THEN Raise(weekly.exc, <<>>)
                ELSE IF dates.exc # "" THEN Raise(dates.exc, <<>>)
                ELSE IF \E i \in 1..Len(ts_weather.areas) : sub(i).exc # ""
                THEN Raise("Exception", <<>>)
                ELSE Ret([i \in 1..Len(ts_weather.areas) |-> sub(i).val])

\* No except clause, the exception reaches the caller: a mutant of CatchAll.
CatchAll_propagate(body) == body

\* try: ... except Exception: return []
CatchAll(body) == IF body.exc # "" THEN Ret(<<>>) ELSE Ret(body.val)

\* rewrite_.py, DataManager._parse_jma_data
_parse_jma_data(raw_json) == CatchAll(ParseBody("dbver", raw_json))

\* mfin.py, DataManager._parse_jma_data
mfin_parse_jma_data(raw_json) == CatchAll(ParseBody("mfin", raw_json))

ParseJmaData(v, raw_json) ==
    IF v = "dbver" THEN _parse_jma_data(raw_json) ELSE mfin_parse_jma_data(raw_json)

(***************************************************************************)
(* The region registry, _load_area_data.  A JSON document is null          *)
(* ([t |-> "null"]), something that is no dict ([t |-> "list"]) or a dict  *)
(* ([t |-> "dict", d |-> the dict]).  The "offices" dict is the sequence   *)
(* of its items in insertion order, each [code |-> c, info |-> dict].      *)
(***************************************************************************)
JList == [t |-> "list"]

\* The empty dict {}.
EmptyDict == [n \in {} |-> ""]

JDict(d) == [t |-> "dict", d |-> d]

Office(c, n) == [code |-> c, info |-> [name |-> n]]

\* rewrite_.py lines 53-60 written with a wrong code for Tokyo: a mutant of
\* FallbackData.
FallbackData_wrong_code ==
    JDict([offices |-> <<Office("13000", "Tokyo-to"), Office("270000", "Osaka-fu"),
                         Office("016000", "Sapporo"), Office("471000", "Okinawa")>>])

\* rewrite_.py lines 53-60
FallbackData ==
    JDict([offices |-> <<Office("130000", "Tokyo-to"), Office("270000", "Osaka-fu"),
                         Office("016000", "Sapporo"), Office("471000", "Okinawa")>>])

\* mfin.py lines 39-42
fallback_offices == <<Office("130000", "Tokyo-to"), Office("270000", "Osaka-fu")>>

\* The dict {name: code} the loop builds: a later item replaces an earlier
\* one of the same name.
NameToId(items) ==
    [n \in {items[i].info.name : i \in 1..Len(items)} |->
        items[CHOOSE i \in 1..Len(items) :
                 /\ items[i].info.name = n
                 /\ \A j \in 1..Len(items) : items[j].info.name = n => j <= i].code]

\* The loop `for code, info in offices.items()`: KeyError at the first item
\* without "name".
RegistryOf(items) ==
    IF \E i \in 1..Len(items) : ~HasKey(items[i].info, "name")
    THEN Raise("KeyError", [names |-> <<>>, ids |-> EmptyDict])
    ELSE Ret([names |-> [i \in 1..Len(items) |-> items[i].info.name], ids |-> NameToId(items)])

\* rewrite_.py lines 63-73, the try block: full_data.get("offices", {}) and
\* the loop.  AttributeError when full_data is no dict.
ProcessOffices(full_data) ==
    IF full_data.t # "dict" THEN Raise("AttributeError", [names |-> <<>>, ids |-> EmptyDict])
    ELSE IF ~HasKey(full_data.d, "offices") THEN Ret([names |-> <<>>, ids |-> EmptyDict])
    ELSE RegistryOf(full_data.d.offices)

\* rewrite_.py lines 74-77
TokyoOnly == [names |-> <<"Tokyo-to">>, ids |-> [n \in {"Tokyo-to"} |-> "130000"]]

NetFail == [ok |-> FALSE]

\* The file area.json: missing, present but failing open() or json.load(),
\* or holding a JSON document.
Absent == [state |-> "absent"]

Unreadable == [state |-> "unreadable"]

Readable(doc) == [state |-> "readable", content |-> doc]

NetOk(doc) == [ok |-> TRUE, doc |-> doc]

NoRequest == [ok |-> FALSE, none |-> TRUE]

\* The cache file is never read: a mutant of FromCache.
FromCache_skipped(file) == JNull

\* rewrite_.py lines 27-34: full_data after the cache file has been tried.
FromCache(file) == IF file.state = "readable" THEN file.content ELSE JNull

\* rewrite_.py lines 44-45: the cache file after the write of doc.  The write
\* succeeds ("ok"), open() is refused ("denied": the file stays as it was) or
\* the dump breaks off after open() has truncated the file ("partial").
WriteCache(file, doc, write) ==
    IF write = "ok" THEN Readable(doc)
    ELSE IF write = "denied" THEN file
    ELSE Unreadable

WriteOutcomes == {"ok", "denied", "partial"}

\* rewrite_.py lines 21-77.  file is the cache file before the call, net the
\* answer the request would get, write the outcome a write of area.json has.
\* The result holds the registry, the cache file after the call and the
\* request made (NoRequest when the cache gave the data).
_load_area_data(file, net, write) ==
    LET cached == FromCache(file)
        requested == cached = JNull
        fetched == IF requested /\ net.ok THEN net.doc ELSE cached
        full_data == IF fetched = JNull THEN FallbackData ELSE fetched
        processed == ProcessOffices(full_data)
    IN  [registry |-> IF processed.exc # "" THEN TokyoOnly ELSE processed.val,
         file |-> IF requested /\ net.ok THEN WriteCache(file, net.doc, write) ELSE file,
         request |-> IF requested THEN net ELSE NoRequest]

\* mfin.py lines 17-51: no cache file; the except clause covers the request
\* and the loop alike.
mfin_load_area_data(file, net, write) ==
    LET processed == IF net.ok THEN ProcessOffices(net.doc)
                     ELSE Raise("RequestException", [names |-> <<>>, ids |-> EmptyDict])
    IN  [registry |-> IF processed.exc # "" THEN RegistryOf(fallback_offices).val
                      ELSE processed.val,
         file |-> file,
         request |-> net]

LoadAreaDataOf(v, file, net, write) ==
    IF v = "dbver" THEN _load_area_data(file, net, write)
    ELSE mfin_load_area_data(file, net, write)

(***************************************************************************)
(* The history store, db_manager.py.  A JSON text is the sequence of its   *)
(* tokens: the brackets and braces and the strings (keys and values); the  *)
(* commas and colons carry nothing and are left out.                       *)
(***************************************************************************)
Punct(c) == [k |-> "punct", v |-> c]

StrTok(str) == [k |-> "str", v |-> str]

RECURSIVE Flatten(_)
Flatten(texts) == IF texts = <<>> THEN <<>> ELSE Head(texts) \o Flatten(Tail(texts))

DumpList(items) == <<Punct("[")>> \o Flatten(items) \o <<Punct("]")>>

DumpObject(keys, values) ==
    <<Punct("{")>> \o Flatten([i \in 1..Len(keys) |-> <<StrTok(keys[i])>> \o values[i]])
                   \o <<Punct("}")>>

DumpForecast(f) ==
    DumpObject(<<"day", "icon", "status", "temp", "color">>,
               <<<<StrTok(f.day)>>, <<StrTok(f.icon)>>, <<StrTok(f.status)>>,
                 <<StrTok(f.temp)>>, <<StrTok(f.color)>>>>)

DumpSubregion(sub) ==
    DumpObject(<<"area_name", "forecasts">>,
               <<<<StrTok(sub.area_name)>>,
                 DumpList([i \in 1..Len(sub.forecasts) |-> DumpForecast(sub.forecasts[i])])>>)

\* json.dumps(parsed_data, ensure_ascii=False) of a normalizer result
json_dumps(parsed_data) ==
    DumpList([i \in 1..Len(parsed_data) |-> DumpSubregion(parsed_data[i])])

RECURSIVE ParseValue(_, _)
RECURSIVE ParseItems(_, _, _)
RECURSIVE ParseMembers(_, _, _)
\* The value that starts at token i and the place after it.
ParseValue(text, i) ==
    IF text[i].k = "str" THEN [val |-> text[i].v, next |-> i + 1]
    ELSE IF text[i].v = "[" THEN ParseItems(text, i + 1, <<>>)
    ELSE ParseMembers(text, i + 1, EmptyDict)

ParseItems(text, i, items) ==
    IF text[i] = Punct("]") THEN [val |-> items, next |-> i + 1]
    ELSE LET item == ParseValue(text, i)
         IN  ParseItems(text, item.next, Append(items, item.val))

ParseMembers(text, i, members) ==
    IF text[i] = Punct("}") THEN [val |-> members, next |-> i + 1]
    ELSE LET value == ParseValue(text, i + 1)
         IN  ParseMembers(text, value.next, (text[i].v :> value.val) @@ members)

\* json.loads(row[0])
json_loads(text) == ParseValue(text, 1).val

\* datetime.datetime.now().isoformat() at second t of the session
IsoFormat(t) == "2025-01-01T00:00:0" \o ToString(t)

TimeOf(fetched_at) == CHOOSE t \in 0..9 : IsoFormat(t) = fetched_at

\* save_weather_data as INSERT OR REPLACE on area_name, the row of the region
\* is overwritten: a mutant of save_weather_data.
save_weather_data_overwrite(history, seq, area_name, parsed_data, fetched_at) ==
    Append(SelectSeq(history, LAMBDA row : row.area_name # area_name),
           [id |-> seq + 1, area_name |-> area_name,
            json_data |-> json_dumps(parsed_data), fetched_at |-> fetched_at])

\* db_manager.py lines 122-145: the table after the INSERT.
save_weather_data(history, seq, area_name, parsed_data, fetched_at) ==
    Append(history, [id |-> seq + 1, area_name |-> area_name,
                     json_data |-> json_dumps(parsed_data), fetched_at |-> fetched_at])

\* db_manager.py lines 251-256
save_weather_cache(history, seq, area_name, parsed_data, t) ==
    save_weather_data(history, seq, area_name, parsed_data, IsoFormat(t))

\* The query without WHERE area_name = ?, the latest row of the whole table is
\* given: a mutant of LatestRows.
LatestRows_any_name(history, area_name) ==
    {i \in 1..Len(history) :
        \A j \in 1..Len(history) :
            TimeOf(history[j].fetched_at) <= TimeOf(history[i].fetched_at)}

\* ORDER BY fetched_at ASC in place of DESC, the oldest row is given: a mutant
\* of LatestRows.
LatestRows_oldest(history, area_name) ==
    {i \in 1..Len(history) :
        /\ history[i].area_name = area_name
        /\ \A j \in 1..Len(history) :
              history[j].area_name = area_name
                  => TimeOf(history[i].fetched_at) <= TimeOf(history[j].fetched_at)}

\* db_manager.py lines 156-162: the rows ORDER BY fetched_at DESC LIMIT 1 may
\* give; SQL leaves the choice among rows of equal fetched_at open.
LatestRows(history, area_name) ==
    {i \in 1..Len(history) :
        /\ history[i].area_name = area_name
        /\ \A j \in 1..Len(history) :
              history[j].area_name = area_name
                  => TimeOf(history[j].fetched_at) <= TimeOf(history[i].fetched_at)}

\* db_manager.py lines 147-169, for the row the query gave (0: no row).
get_latest_weather_data(history, i) ==
    IF i = 0 THEN [data |-> <<>>, timestamp |-> JNull, found |-> FALSE]
    ELSE [data |-> json_loads(history[i].json_data),
          timestamp |-> JStr(history[i].fetched_at), found |-> TRUE]

\* db_manager.py lines 258-263
get_weather_cache(history, i) == get_latest_weather_data(history, i)

\* CURRENT_TIMESTAMP at second t of the session
SqlTimestamp(t) == "2025-01-01 00:00:0" \o ToString(t)

StampTime(created_at) == CHOOSE t \in 0..9 : SqlTimestamp(t) = created_at

\* INSERT OR REPLACE in place of INSERT OR IGNORE: a mutant of add_saved_area.
add_saved_area_replace(table, name, code, t) ==
    Append(SelectSeq(table, LAMBDA row : row.area_name # name),
           [area_name |-> name, area_code |-> code, created_at |-> SqlTimestamp(t)])

\* The INSERT is never committed: a mutant of add_saved_area.
add_saved_area_uncommitted(table, name, code, t) == table

\* db_manager.py lines 95-106: the table after INSERT OR IGNORE at second t.
add_saved_area(table, name, code, t) ==
    IF \E i \in 1..Len(table) : table[i].area_name = name THEN table
    ELSE Append(table, [area_name |-> name, area_code |-> code,
                        created_at |-> SqlTimestamp(t)])

\* The DELETE is never committed: a mutant of remove_saved_area.
remove_saved_area_uncommitted(table, name) == table

\* db_manager.py lines 108-118: the table after the DELETE.
remove_saved_area(table, name) == SelectSeq(table, LAMBDA row : row.area_name # name)

\* db_manager.py lines 86-93: the lists SELECT ... ORDER BY created_at ASC may
\* give; SQL leaves the order among rows of equal created_at open.
get_saved_areas(table) ==
    LET n == Len(table)
        orders == {p \in [1..n -> 1..n] :
                     /\ \A a, b \in 1..n : a # b => p[a] # p[b]
                     /\ \A a, b \in 1..n :
                           a < b => StampTime(table[p[a]].created_at)
                                      <= StampTime(table[p[b]].created_at)}
    IN  {[k \in 1..n |-> table[p[k]].area_name] : p \in orders}

\* self.weather_data[region_name] = value
Put(d, key, value) == [x \in DOMAIN d \cup {key} |-> IF x = key THEN value ELSE d[x]]

(***************************************************************************)
(* Specification SpecCode: the two weather-code functions applied to every *)
(* code string of at most MaxCodeLen characters.                           *)
(***************************************************************************)
NoIconColor == Pending(<<"", "">>)

NoStatusText == Pending("")

NoDisplayTemp == Pending("")

\* The variables of the other specifications, at rest.
IdleCode ==
    /\ in_code = <<>>
    /\ icon_color = NoIconColor
    /\ status_text = NoStatusText

IdleTemp ==
    /\ in_weekly_temps = [type |-> "None"]
    /\ in_short_temps = <<>>
    /\ in_time_index = 0
    /\ display_temp = NoDisplayTemp

NoParsedResult == Pending(<<>>)

IdleParse ==
    /\ in_raw_json = <<>>
    /\ parsed_result = NoParsedResult

\* rewrite_.py lines 296-336: the controls as _init_controls builds them; no
\* favourite is loaded yet.
NoDateFilter == [value |-> "", disabled |-> TRUE, options |-> <<>>]

IdleUi ==
    /\ saved_areas = <<>>
    /\ current_saved_regions = <<>>
    /\ current_region_text = "Area Name"
    /\ weather_list_view = <<>>
    /\ date_filter_dd = NoDateFilter
    /\ trace = <<>>
    /\ app_pc = "start"

\* No WeatherDB method has returned yet.
NoDbRet == [names |-> <<>>, data |-> <<>>, timestamp |-> JNull, found |-> FALSE, deleted |-> 0]

IdleStore ==
    /\ db_ret = NoDbRet
    /\ purge_log = [saved |-> EmptyDict, kept |-> EmptyDict]

NoCall == [op |-> "none"]

NoRet == <<FALSE, JNull>>

\* The application state right after construction: nothing fetched, an empty
\* history table.
IdleApp ==
    /\ weather_data = EmptyDict
    /\ weather_history = <<>>
    /\ history_seq = 0
    /\ now = 0
    /\ last_call = NoCall
    /\ ret = NoRet
    /\ IdleUi
    /\ IdleStore

\* The registry of a DataManager built with no cache file and no network.
FallbackRegistry == _load_area_data(Absent, NetFail, "ok").registry

IdleRegistry ==
    /\ cache_file = Absent
    /\ area_net = NetFail
    /\ load_pc = "loaded"
    /\ area_name_list = FallbackRegistry.names
    /\ name_to_id = FallbackRegistry.ids

InitCode ==
    /\ variant \in Variants
    /\ in_code \in BSeq(CodeChars, MaxCodeLen)
    /\ icon_color = NoIconColor
    /\ status_text = NoStatusText
    /\ IdleTemp
    /\ IdleParse
    /\ IdleRegistry
    /\ IdleApp

CallIconAndColor ==
    /\ icon_color = NoIconColor
    /\ icon_color' = IconAndColor(variant, in_code)
    /\ UNCHANGED <<variant, in_code, status_text, tempVars, parseVars, registryVars, appVars, uiVars, storeVars>>

CallStatusText ==
    /\ status_text = NoStatusText
    /\ status_text' = StatusText(variant, in_code)
    /\ UNCHANGED <<variant, in_code, icon_color, tempVars, parseVars, registryVars, appVars, uiVars, storeVars>>

NextCode == CallIconAndColor \/ CallStatusText

SpecCode == InitCode /\ [][NextCode]_vars

(***************************************************************************)
(* C1: for every integer weather code c the icon/color pair and the status *)
(* text follow the half-open ranges [100,200) clear / hare, [200,300)      *)
(* cloudy / kumori, [300,400) rain / ame, [400,500) snow / yuki, anything  *)
(* else unknown / "-"; one pair is produced and the text agrees with it.   *)
(***************************************************************************)
C1_Expected(c) ==
    CASE c \in 100..199 -> [pair |-> <<"WB_SUNNY", "ORANGE">>, text |-> "hare"]
      [] c \in 200..299 -> [pair |-> <<"CLOUD", "GREY">>, text |-> "kumori"]
      [] c \in 300..399 -> [pair |-> <<"WATER_DROP", "BLUE">>, text |-> "ame"]
      [] c \in 400..499 -> [pair |-> <<"AC_UNIT", "CYAN">>, text |-> "yuki"]
      [] OTHER -> [pair |-> <<"HELP_OUTLINE", "GREY">>, text |-> "-"]

C1_CategoryByRange ==
    (PyInt(in_code).exc = "" /\ icon_color # NoIconColor /\ status_text # NoStatusText)
        => /\ icon_color = Ret(C1_Expected(PyInt(in_code).val).pair)
           /\ status_text = Ret(C1_Expected(PyInt(in_code).val).text)

\* Both functions have run on a boundary code: 99, 100, 199, 200, ..., 500.
C1_Witness ==
    /\ PyInt(in_code).exc = ""
    /\ PyInt(in_code).val \in {99, 100, 199, 200, 299, 300, 399, 400, 499, 500}
    /\ Returned(icon_color)
    /\ Returned(status_text)

(***************************************************************************)
(* Specification SpecTemp: the display temperature of one subregion at one *)
(* step, for every weekly entry, short-term list and step within bounds.   *)
(***************************************************************************)
MinVals == {JStr(""), JStr("5"), JInt(0)}

MaxVals == {JStr(""), JStr("10"), JInt(0)}

DailyVals == {JStr(""), JStr("7"), JInt(0)}

ShortVals == {JStr("3"), JStr("8")}

WeeklyTempEntries ==
    {[type |-> "None"]}
    \cup {[type |-> "weekly", mins |-> mi, maxs |-> ma] :
             mi \in BSeq(MinVals, MaxSteps), ma \in BSeq(MaxVals, MaxSteps)}
    \cup {[type |-> "daily", temps |-> te] : te \in BSeq(DailyVals, MaxSteps)}

InitTemp ==
    /\ variant \in Variants
    /\ IdleCode
    /\ in_weekly_temps \in WeeklyTempEntries
    /\ in_short_temps \in BSeq(ShortVals, MaxShort)
    /\ in_time_index \in 0..(MaxSteps - 1)
    /\ display_temp = NoDisplayTemp
    /\ IdleParse
    /\ IdleRegistry
    /\ IdleApp

CallFormatTemperature ==
    /\ display_temp = NoDisplayTemp
    /\ display_temp' = DisplayTemp(variant, in_weekly_temps, in_short_temps, in_time_index)
    /\ UNCHANGED <<variant, codeVars, in_weekly_temps, in_short_temps, in_time_index, parseVars, registryVars, appVars, uiVars, storeVars>>

NextTemp == CallFormatTemperature

SpecTemp == InitTemp /\ [][NextTemp]_vars

\* The pair of values the weekly entry holds at the step, when it holds both.
HasMinMax ==
    /\ in_weekly_temps.type = "weekly"
    /\ in_time_index < Len(in_weekly_temps.mins)
    /\ in_time_index < Len(in_weekly_temps.maxs)

MinV == in_weekly_temps.mins[in_time_index + 1]

MaxV == in_weekly_temps.maxs[in_time_index + 1]

(***************************************************************************)
(* C2: for a weekly-range subregion at step 0 whose min or max is the      *)
(* empty string, the display temperature is decided by the short-term list *)
(* alone: two or more values "v0-v1°C", one value "v0°C", none "--",       *)
(* whatever the other of min / max holds.                                  *)
(***************************************************************************)
C2_Fallback(st) ==
    CASE Len(st) >= 2 -> PyStr(st[1]) \o "-" \o PyStr(st[2]) \o "°C"
      [] Len(st) = 1 -> PyStr(st[1]) \o "°C"
      [] OTHER -> "--"

C2_ShortTermFallback ==
    (/\ display_temp # NoDisplayTemp
     /\ HasMinMax
     /\ in_time_index = 0
     /\ (MinV = JStr("") \/ MaxV = JStr("")))
        => display_temp = Ret(C2_Fallback(in_short_temps))

\* Step 0, min empty and max "10", two short-term values: "3-8°C" style output.
C2_Witness ==
    /\ Returned(display_temp)
    /\ HasMinMax
    /\ in_time_index = 0
    /\ MinV = JStr("")
    /\ MaxV = JStr("10")
    /\ Len(in_short_temps) >= 2
    /\ display_temp.val = PyStr(in_short_temps[1]) \o "-" \o PyStr(in_short_temps[2]) \o "°C"

(***************************************************************************)
(* C3: in both variants, for a weekly-range subregion at a step > 0, or at *)
(* step 0 with both values non-empty: both non-empty "min-max°C", only min *)
(* non-empty "min°C", only max non-empty "max°C", both empty "--".  The    *)
(* values are strings, as in the claim's cases.                            *)
(***************************************************************************)
C3_Expected(mn, mx) ==
    CASE mn # "" /\ mx # "" -> mn \o "-" \o mx \o "°C"
      [] mn # "" /\ mx = "" -> mn \o "°C"
      [] mn = "" /\ mx # "" -> mx \o "°C"
      [] OTHER -> "--"

C3_Case ==
    /\ display_temp # NoDisplayTemp
    /\ HasMinMax
    /\ MinV.t = "str"
    /\ MaxV.t = "str"
    /\ (in_time_index > 0 \/ (MinV.s # "" /\ MaxV.s # ""))

C3_WeeklyRangeBothVariants ==
    C3_Case => display_temp = Ret(C3_Expected(MinV.s, MaxV.s))

(***************************************************************************)
(* Specification SpecParse: _parse_jma_data applied to forecast documents. *)
(* The documents are built from the parts below: arrays of every length up *)
(* to the bounds, present and missing keys, a non-numeric weather code, a  *)
(* date that does not exist, one or two reports.                           *)
(***************************************************************************)
Fill(x, k) == [i \in 1..k |-> x]

C100 == <<"1", "0", "0">>

C250 == <<"2", "5", "0">>

CBad == <<"x">>

\* k numeric weather codes, "100" and "250" in turn
ValidCodes(k) == [i \in 1..k |-> IF i % 2 = 1 THEN C100 ELSE C250]

CodeLists ==
    {ValidCodes(k) : k \in 0..MaxSteps}
    \cup {Append(ValidCodes(k), CBad) : k \in 0..(MaxSteps - 1)}

\* 1/31, 2/1, 2/2, ...
DateAt(i) == IF i = 1 THEN [month |-> 1, day |-> 31] ELSE [month |-> 2, day |-> i - 1]

BadDate == [month |-> 2, day |-> 30]

ValidDates(k) == [i \in 1..k |-> DateAt(i)]

TimeLists ==
    {ValidDates(k) : k \in {0, MaxSteps - 1, MaxSteps, MaxSteps + 1}}
    \cup {Append(ValidDates(MaxSteps - 1), BadDate)}

AreaName(i) == IF i = 1 THEN "A" ELSE "B"

\* The weather areas: the first with any code list, the later ones with all
\* the codes or without the key.
FirstWeatherAreas == {[area |-> [name |-> AreaName(1)], weatherCodes |-> c] : c \in CodeLists}

MoreWeatherAreas ==
    {[area |-> [name |-> AreaName(2)], weatherCodes |-> ValidCodes(MaxSteps)],
     [area |-> [name |-> AreaName(2)]]}

\* The areas after the first are alike.
Repeats(S) == {Fill(x, k) : x \in S, k \in 0..(MaxAreas - 1)}

WeatherAreaLists == {<<a>> \o r : a \in FirstWeatherAreas, r \in Repeats(MoreWeatherAreas)}

\* What stands at the weather series' place in the weekly report: the
\* series, or a series with no areas, or one with an empty areas list.
WeatherSeriesSet ==
    {[areas |-> al, timeDefines |-> tl] : al \in WeatherAreaLists, tl \in TimeLists}
    \cup {[areas |-> <<[area |-> [name |-> AreaName(1)], weatherCodes |-> ValidCodes(MaxSteps)]>>]}
    \cup {[areas |-> <<[weatherCodes |-> ValidCodes(MaxSteps)]>>,
           timeDefines |-> ValidDates(MaxSteps)]}
    \cup {[areas |-> <<>>, timeDefines |-> ValidDates(MaxSteps)],
          [timeDefines |-> ValidDates(MaxSteps)]}

EmptyFirst(l) == IF l = <<>> THEN l ELSE [l EXCEPT ![1] = JStr("")]

MinLists ==
    {Fill(JStr("5"), k) : k \in 0..MaxSteps}
    \cup {EmptyFirst(Fill(JStr("5"), k)) : k \in 1..MaxSteps}

MaxLists == {Fill(JStr("10"), k) : k \in {0, MaxSteps - 1, MaxSteps}}

DailyLists ==
    {Fill(JStr("7"), k) : k \in 0..MaxSteps} \cup {EmptyFirst(Fill(JStr("7"), MaxSteps))}
    \cup {[k \in 1..MaxSteps |-> IF k = 1 THEN JStr("0") ELSE JInt(0)]}

FirstTempAreas ==
    {[area |-> [name |-> AreaName(1)], tempsMin |-> mi, tempsMax |-> ma] :
        mi \in MinLists, ma \in MaxLists}
    \cup {[area |-> [name |-> AreaName(1)], temps |-> te] : te \in DailyLists}
    \cup {[area |-> [name |-> AreaName(1)], tempsMin |-> Fill(JStr("5"), MaxSteps)]}

MoreTempAreas ==
    {[area |-> [name |-> AreaName(2)],
      tempsMin |-> Fill(JStr("5"), MaxSteps), tempsMax |-> Fill(JStr("10"), MaxSteps)]}

\* The weekly report's temperature series, <<>> when it has none. In the last
\* one the areas are named in another order than those of the weather series,
\* or not at all: the normalizer reads no name in a temperature series.
TempSeriesOptions ==
    LET renamed ==
            <<[area |-> [name |-> AreaName(2)], temps |-> Fill(JStr("7"), MaxSteps)],
              [tempsMin |-> Fill(JStr("5"), MaxSteps), tempsMax |-> Fill(JStr("10"), MaxSteps)]>>
    IN  {<<>>}
        \cup {<<[areas |-> <<a>> \o r]>> : a \in FirstTempAreas, r \in Repeats(MoreTempAreas)}
        \cup {<<[areas |-> renamed]>>}

\* The short-term report: <<>> when the document has one report only.
ShortReportOptions ==
    {<<>>, <<[other |-> <<>>]>>, <<[timeSeries |-> <<>>]>>}
    \cup {<<[timeSeries |-> <<[areas |-> <<[area |-> [name |-> AreaName(1)],
                                            temps |-> Fill(JStr("3"), k)]>>]>>]>> :
             k \in 1..MaxShort}
    \cup {<<[timeSeries |-> <<[areas |-> <<[area |-> [name |-> AreaName(1)],
                                            temps |-> <<JStr("3"), JStr("8")>>],
                                           [area |-> [name |-> AreaName(2)]]>>]>>]>>}

Documents(short_reports) ==
    {<<>>, <<[other |-> <<>>]>>}
    \cup {sr \o <<[timeSeries |-> <<w>> \o t]>> :
             sr \in short_reports, w \in WeatherSeriesSet, t \in TempSeriesOptions}
    \cup {sr \o <<[timeSeries |-> t]>> : sr \in short_reports, t \in TempSeriesOptions}

InitParse ==
    /\ variant \in Variants
    /\ IdleCode
    /\ IdleTemp
    /\ in_raw_json \in Documents(ShortReportOptions)
    /\ parsed_result = NoParsedResult
    /\ IdleRegistry
    /\ IdleApp

CallParseJmaData ==
    /\ parsed_result = NoParsedResult
    /\ parsed_result' = ParseJmaData(variant, in_raw_json)
    /\ UNCHANGED <<variant, codeVars, tempVars, in_raw_json, registryVars, appVars, uiVars, storeVars>>

NextParse == CallParseJmaData

SpecParse == InitParse /\ [][NextParse]_vars

(***************************************************************************)
(* Specification SpecSeries: the normalizer applied to documents whose     *)
(* reports hold several series of a kind, in every order.                  *)
(***************************************************************************)
\* Documents with several series of a kind in one report: the series a
\* report is made of, and every sequence of at most MaxSeries of them as the
\* weekly report, after a short-term report with two temps series or none.
MaxSeries == 3

WeatherA ==
    [areas |-> <<[area |-> [name |-> AreaName(1)], weatherCodes |-> Fill(C100, MaxSteps)]>>,
     timeDefines |-> ValidDates(MaxSteps)]

WeatherB ==
    [areas |-> <<[area |-> [name |-> AreaName(2)], weatherCodes |-> Fill(C250, MaxSteps),
                  temps |-> Fill(JStr("9"), MaxSteps)]>>,
     timeDefines |-> ValidDates(MaxSteps)]

TempWeekly ==
    [areas |-> <<[area |-> [name |-> AreaName(1)],
                  tempsMin |-> EmptyFirst(Fill(JStr("5"), MaxSteps)),
                  tempsMax |-> Fill(JStr("10"), MaxSteps)]>>]

TempDaily == [areas |-> <<[area |-> [name |-> AreaName(1)], temps |-> Fill(JStr("7"), MaxSteps)]>>]

ShortOne == [areas |-> <<[area |-> [name |-> AreaName(1)], temps |-> <<JStr("3")>>]>>]

ShortTwo == [areas |-> <<[area |-> [name |-> AreaName(1)], temps |-> <<JStr("8"), JStr("8")>>]>>]

SeriesPool ==
    {WeatherA, WeatherB, TempWeekly, TempDaily, [areas |-> <<>>], [timeDefines |-> ValidDates(MaxSteps)]}

SeriesDocuments(n) ==
    {sr \o <<[timeSeries |-> ts]>> :
        sr \in {<<>>, <<[timeSeries |-> <<WeatherA, ShortOne, ShortTwo>>]>>,
                <<[timeSeries |-> <<ShortTwo, ShortOne>>]>>},
        ts \in BSeq(SeriesPool, n)}

InitSeries ==
    /\ variant \in Variants
    /\ IdleCode
    /\ IdleTemp
    /\ in_raw_json \in SeriesDocuments(MaxSeries)
    /\ parsed_result = NoParsedResult
    /\ IdleRegistry
    /\ IdleApp

NextSeries == CallParseJmaData

SpecSeries == InitSeries /\ [][NextSeries]_vars

\* The weekly report of the document and its weather series, as lines
\* 112 and 125-130 pick them.
WeeklyReport == IF Len(in_raw_json) > 1 THEN in_raw_json[2] ELSE in_raw_json[1]

HasWeatherSeries ==
    /\ in_raw_json # <<>>
    /\ HasKey(WeeklyReport, "timeSeries")
    /\ WeatherSeriesIndex(WeeklyReport.timeSeries) # 0

TsWeather == WeeklyReport.timeSeries[WeatherSeriesIndex(WeeklyReport.timeSeries)]

TsTempAreas ==
    IF TempSeriesIndex(WeeklyReport.timeSeries) = 0 THEN <<>>
    ELSE WeeklyReport.timeSeries[TempSeriesIndex(WeeklyReport.timeSeries)].areas

\* min(len(weatherCodes of subregion i), len(timeDefines))
StepCount(i) == Min(Len(TsWeather.areas[i].weatherCodes), Len(TsWeather.timeDefines))

\* Every key the normalizer reads is there, every date exists and every
\* weather code is a number: nothing but the array lengths is left open.
WellFormed ==
    /\ HasWeatherSeries
    /\ HasKey(in_raw_json[1], "timeSeries")
    /\ ShortTermTempsMap(in_raw_json[1]).exc = ""
    /\ HasKey(TsWeather, "timeDefines")
    /\ \A k \in 1..Len(TsWeather.timeDefines) : IsoValid(TsWeather.timeDefines[k])
    /\ \A i \in 1..Len(TsWeather.areas) :
          /\ HasKey(TsWeather.areas[i], "area")
          /\ HasKey(TsWeather.areas[i].area, "name")
          /\ HasKey(TsWeather.areas[i], "weatherCodes")
          /\ \A k \in 1..Len(TsWeather.areas[i].weatherCodes) :
                PyInt(TsWeather.areas[i].weatherCodes[k]).exc = ""
    /\ \A i \in 1..Len(TsTempAreas) :
          \/ HasKey(TsTempAreas[i], "tempsMin") /\ HasKey(TsTempAreas[i], "tempsMax")
          \/ ~HasKey(TsTempAreas[i], "tempsMin") /\ HasKey(TsTempAreas[i], "temps")

\* The temperature arrays of subregion i hold fewer values than its steps.
ShortTempArray(i) ==
    /\ i <= Len(TsTempAreas)
    /\ IF HasKey(TsTempAreas[i], "tempsMin")
       THEN \/ Len(TsTempAreas[i].tempsMin) < StepCount(i)
            \/ Len(TsTempAreas[i].tempsMax) < StepCount(i)
       ELSE Len(TsTempAreas[i].temps) < StepCount(i)

\* One forecast list per subregion, each of exactly StepCount entries.
ExactLengths ==
    /\ Len(parsed_result.val) = Len(TsWeather.areas)
    /\ \A i \in 1..Len(TsWeather.areas) : Len(parsed_result.val[i].forecasts) = StepCount(i)

(***************************************************************************)
(* C4 as claimed: for every well-formed input each subregion's forecast    *)
(* list has exactly min(len(weatherCodes), len(timeDefines)) entries,      *)
(* whatever the lengths of tempsMin / tempsMax / temps.                    *)
(***************************************************************************)
C4_ExactLengthWhateverTemps ==
    (parsed_result # NoParsedResult /\ WellFormed) => (Returned(parsed_result) /\ ExactLengths)

(***************************************************************************)
(* C4 as amended: for every well-formed input the normalizer returns one   *)
(* forecast list of exactly min(len(weatherCodes), len(timeDefines))       *)
(* entries per subregion, unless a temperature array of some subregion is  *)
(* shorter than that subregion's step count, and then it returns [].       *)
(***************************************************************************)
C4_ExactLengthOrEmpty ==
    (parsed_result # NoParsedResult /\ WellFormed)
        => /\ Returned(parsed_result)
           /\ IF \E i \in 1..Len(TsWeather.areas) : ShortTempArray(i)
              THEN parsed_result.val = <<>>
              ELSE ExactLengths

\* A weather-code array two shorter than timeDefines, and a temperature
\* array shorter than timeDefines: the shorter length is produced.
C4_Witness ==
    /\ Returned(parsed_result)
    /\ WellFormed
    /\ Len(TsWeather.areas[1].weatherCodes) = 1
    /\ Len(TsWeather.timeDefines) = 3
    /\ TsTempAreas # <<>>
    /\ HasKey(TsTempAreas[1], "tempsMin")
    /\ Len(TsTempAreas[1].tempsMin) = 1
    /\ parsed_result.val # <<>>
    /\ Len(parsed_result.val[1].forecasts) = 1

(***************************************************************************)
(* C5: in every result the normalizer returns, each SubregionForecast has  *)
(* at most min(len(weatherCodes of that subregion), len(timeDefines))      *)
(* entries.                                                                *)
(***************************************************************************)
C5_AtMostStepCount ==
    (Returned(parsed_result) /\ parsed_result.val # <<>>)
        => /\ HasWeatherSeries
           /\ HasKey(TsWeather, "timeDefines")
           /\ \A i \in 1..Len(parsed_result.val) :
                 /\ i <= Len(TsWeather.areas)
                 /\ HasKey(TsWeather.areas[i], "weatherCodes")
                 /\ Len(parsed_result.val[i].forecasts) <= StepCount(i)

\* Two subregions, the first with fewer codes than dates and the second
\* with fewer dates than codes, both cut to the shorter length.
C5_Witness ==
    /\ Returned(parsed_result)
    /\ Len(parsed_result.val) = 2
    /\ Len(TsWeather.timeDefines) = 1
    /\ Len(TsWeather.areas[1].weatherCodes) = 0
    /\ Len(TsWeather.areas[2].weatherCodes) = 2
    /\ Len(parsed_result.val[1].forecasts) = 0
    /\ Len(parsed_result.val[2].forecasts) = 1

(***************************************************************************)
(* C6: if no series of the weekly report has "weatherCodes" among the keys *)
(* of its first area (every series may have an empty or missing areas      *)
(* list), the normalizer returns the empty list.                           *)
(***************************************************************************)
NoWeatherCodesSeries ==
    /\ in_raw_json # <<>>
    /\ HasKey(WeeklyReport, "timeSeries")
    /\ \A k \in 1..Len(WeeklyReport.timeSeries) :
          LET series == WeeklyReport.timeSeries[k]
          IN  \/ ~HasKey(series, "areas")
              \/ series.areas = <<>>
              \/ ~HasKey(series.areas[1], "weatherCodes")

C6_NoWeatherSeriesGivesEmpty ==
    (parsed_result # NoParsedResult /\ NoWeatherCodesSeries) => parsed_result = Ret(<<>>)

\* The weekly report holds a temperature series and no weather series.
C6_Witness ==
    /\ parsed_result = Ret(<<>>)
    /\ NoWeatherCodesSeries
    /\ Len(in_raw_json) = 2
    /\ \E k \in 1..Len(WeeklyReport.timeSeries) :
          /\ HasAreas(WeeklyReport.timeSeries[k])
          /\ HasKey(WeeklyReport.timeSeries[k].areas[1], "tempsMin")

(***************************************************************************)
(* C7: for every document _parse_jma_data returns without raising; it      *)
(* returns the complete list (one SubregionForecast per weather area, each *)
(* with all its steps) or the empty list, never a partial list; and a      *)
(* missing key, a temperature array too short, a non-numeric weather code  *)
(* or a date that does not parse gives the empty list.                     *)
(***************************************************************************)
\* A failure the normalizer runs into in a document that has a weather series.
StructuralFailure ==
    /\ HasWeatherSeries
    /\ \/ ~HasKey(in_raw_json[1], "timeSeries")
       \/ ~HasKey(TsWeather, "timeDefines")
       \/ \E k \in 1..Len(TsWeather.timeDefines) : ~IsoValid(TsWeather.timeDefines[k])
       \/ \E i \in 1..Len(TsWeather.areas) :
             \/ ~HasKey(TsWeather.areas[i], "area")
             \/ ~HasKey(TsWeather.areas[i], "weatherCodes")
       \/ \E i \in 1..Len(TsTempAreas) :
             ~HasKey(TsTempAreas[i], "tempsMax") /\ ~HasKey(TsTempAreas[i], "temps")
       \/ /\ WellFormed
          /\ \E i \in 1..Len(TsWeather.areas) : ShortTempArray(i)
       \/ /\ HasKey(TsWeather, "timeDefines")
          /\ \E i \in 1..Len(TsWeather.areas) :
                /\ HasKey(TsWeather.areas[i], "weatherCodes")
                /\ \E k \in 1..StepCount(i) : PyInt(TsWeather.areas[i].weatherCodes[k]).exc # ""

CompleteList ==
    /\ HasWeatherSeries
    /\ HasKey(TsWeather, "timeDefines")
    /\ Len(parsed_result.val) = Len(TsWeather.areas)
    /\ \A i \in 1..Len(TsWeather.areas) :
          /\ HasKey(TsWeather.areas[i], "weatherCodes")
          /\ Len(parsed_result.val[i].forecasts) = StepCount(i)

OfficeCodes == <<"130000", "270000", "016000", "471000">>

OfficeInfos == {[name |-> "Tokyo-to"], [name |-> "Osaka-fu"], [other |-> ""]}

\* The "offices" dicts of at most MaxOffices items: the keys of a dict differ.
OfficeItems ==
    {items \in BSeq([code : {OfficeCodes[i] : i \in 1..(MaxOffices + 1)}, info : OfficeInfos],
                    MaxOffices) :
        \A i, j \in 1..Len(items) : i # j => items[i].code # items[j].code}

RegistryDocs ==
    {JNull, JList, JDict([other |-> <<>>])} \cup {JDict([offices |-> o]) : o \in OfficeItems}

CacheFiles == {Absent, Unreadable} \cup {Readable(doc) : doc \in RegistryDocs}

NetAnswers == {NetFail} \cup {NetOk(doc) : doc \in RegistryDocs}

InitRegistry ==
    /\ variant \in Variants
    /\ IdleCode
    /\ IdleTemp
    /\ IdleParse
    /\ cache_file \in (IF variant = "dbver" THEN CacheFiles ELSE {Absent})
    /\ area_net = NoRequest
    /\ load_pc = "start"
    /\ area_name_list = <<>>
    /\ name_to_id = EmptyDict
    /\ IdleApp

\* The answers the registry request can get: drawn only when the request is
\* made (mfin.py: always; rewrite_.py: when the cache file gave nothing).
AnswersFor(v, file) ==
    IF v = "mfin" \/ FromCache(file) = JNull THEN NetAnswers ELSE {NetFail}

\* The outcomes of the write of area.json: drawn only when it is attempted.
WritesFor(v, net) == IF v = "dbver" /\ net.ok THEN WriteOutcomes ELSE {"ok"}

LoadAreaData ==
    /\ load_pc = "start"
    /\ \E net \in AnswersFor(variant, cache_file) :
       \E write \in WritesFor(variant, net) :
          LET r == LoadAreaDataOf(variant, cache_file, net, write)
          IN  /\ area_name_list' = r.registry.names
              /\ name_to_id' = r.registry.ids
              /\ cache_file' = r.file
              /\ area_net' = r.request
    /\ load_pc' = "loaded"
    /\ UNCHANGED <<variant, codeVars, tempVars, parseVars, appVars, uiVars, storeVars>>

NextRegistry == LoadAreaData

SpecRegistry == InitRegistry /\ [][NextRegistry]_vars

(***************************************************************************)
(* C8: after _load_area_data of rewrite_.py, for every state of the cache  *)
(* file (absent, unreadable, readable with any JSON content) and every     *)
(* network outcome, area_name_list is non-empty and name_to_id maps every  *)
(* listed name to a code.                                                  *)
(***************************************************************************)
C8_RegistryNeverEmpty ==
    (variant = "dbver" /\ load_pc = "loaded")
        => /\ area_name_list # <<>>
           /\ \A i \in 1..Len(area_name_list) : area_name_list[i] \in DOMAIN name_to_id

(***************************************************************************)
(* C9: when the registry cannot be obtained from the network and there is  *)
(* no usable cache file (none, an unreadable one, or one holding null; the *)
(* mfin variant has no cache file), the loaded registry lists "Tokyo-to"   *)
(* (東京都) and maps it to "130000".                                       *)
(***************************************************************************)
C9_FallbackHasTokyo ==
    (load_pc = "loaded" /\ area_net = NetFail /\ cache_file \in {Absent, Unreadable, Readable(JNull)})
        => /\ \E i \in 1..Len(area_name_list) : area_name_list[i] = "Tokyo-to"
           /\ "Tokyo-to" \in DOMAIN name_to_id
           /\ name_to_id["Tokyo-to"] = "130000"

\* rewrite_.py, an unreadable area.json and a failed request: the four
\* fallback regions are loaded.
C9_Witness ==
    /\ variant = "dbver"
    /\ load_pc = "loaded"
    /\ area_net = NetFail
    /\ cache_file = Unreadable
    /\ Len(area_name_list) = 4
    /\ name_to_id["Tokyo-to"] = "130000"

(***************************************************************************)
(* Specification Spec: a session of DataManager, of rewrite_.py or of       *)
(* mfin.py.  Each step is one fetch_weather_data run to its end; the       *)
(* clock moves on with every one.  The history store is taken to accept    *)
(* every statement.                                                        *)
(***************************************************************************)
\* A forecast document of one weekly report, one area and one day.
ForecastDoc(code) ==
    <<[timeSeries |-> <<[areas |-> <<[area |-> [name |-> AreaName(1)],
                                      weatherCodes |-> <<code>>]>>,
                         timeDefines |-> ValidDates(1)]>>]>>

\* The answers a forecast request gets: none, two documents the normalizer
\* accepts and one it does not.
FetchAnswers == {NetFail, NetOk(ForecastDoc(C100)), NetOk(ForecastDoc(C250)), NetOk(<<>>)}

\* The regions the user picks in the session.
Regions == {"Tokyo-to", "Osaka-fu"}

\* The registry the session runs with: the fallback one of its variant.
LoadedRegistry(v) ==
    /\ cache_file = Absent
    /\ area_net = NetFail
    /\ load_pc = "loaded"
    /\ area_name_list = LoadAreaDataOf(v, Absent, NetFail, "ok").registry.names
    /\ name_to_id = LoadAreaDataOf(v, Absent, NetFail, "ok").registry.ids

\* What the history table holds when the session starts: nothing, or a
\* snapshot an earlier session of rewrite_.py saved.  mfin.py has no store.
StoredPayload == _parse_jma_data(ForecastDoc(C100)).val

PriorHistories(v) ==
    IF v = "mfin" THEN {<<>>}
    ELSE {<<>>, save_weather_cache(<<>>, 0, "Tokyo-to", StoredPayload, 0)}

Init ==
    /\ variant \in Variants
    /\ IdleCode
    /\ IdleTemp
    /\ IdleParse
    /\ LoadedRegistry(variant)
    /\ weather_data = EmptyDict
    /\ weather_history \in PriorHistories(variant)
    /\ history_seq = Len(weather_history)
    /\ now = 0
    /\ last_call = NoCall
    /\ ret = NoRet
    /\ IdleUi
    /\ IdleStore

\* The except clause returning (False, None) after it filled the cache: a
\* mutant of FetchFromCache.
FetchFromCache_unreported(region_name, i) ==
    LET cached == get_weather_cache(weather_history, i)
    IN  /\ weather_data' = IF cached.data # <<>> THEN Put(weather_data, region_name, cached.data)
                           ELSE weather_data
        /\ ret' = <<FALSE, JNull>>

\* rewrite_.py lines 97-104: the except clause, i the row the query gave.
FetchFromCache(region_name, i) ==
    LET cached == get_weather_cache(weather_history, i)
    IN  IF cached.data # <<>>
        THEN /\ weather_data' = Put(weather_data, region_name, cached.data)
             /\ ret' = <<TRUE, cached.timestamp>>
        ELSE /\ weather_data' = weather_data
             /\ ret' = <<FALSE, JNull>>

\* rewrite_.py without the test `if parsed_data:`, whatever the normalizer
\* returns is stored: a mutant of fetch_weather_data.
fetch_weather_data_untested(region_id, region_name, net) ==
    LET parsed_data == IF net.ok THEN _parse_jma_data(net.doc).val ELSE <<>>
        rows == LatestRows(weather_history, region_name)
    IN  IF net.ok
        THEN /\ weather_data' = Put(weather_data, region_name, parsed_data)
             /\ weather_history' = save_weather_cache(weather_history, history_seq,
                                                      region_name, parsed_data, now')
             /\ history_seq' = history_seq + 1
             /\ ret' = <<TRUE, JStr("online")>>
        ELSE /\ IF rows = {} THEN FetchFromCache(region_name, 0)
                ELSE \E i \in rows : FetchFromCache(region_name, i)
             /\ UNCHANGED <<weather_history, history_seq>>

\* rewrite_.py lines 79-106
fetch_weather_data(region_id, region_name, net) ==
    LET parsed_data == IF net.ok THEN _parse_jma_data(net.doc).val ELSE <<>>
        rows == LatestRows(weather_history, region_name)
    IN  IF net.ok /\ parsed_data # <<>>
        THEN /\ weather_data' = Put(weather_data, region_name, parsed_data)
             /\ weather_history' = save_weather_cache(weather_history, history_seq,
                                                      region_name, parsed_data, now')
             /\ history_seq' = history_seq + 1
             /\ ret' = <<TRUE, JStr("online")>>
        ELSE IF net.ok
        THEN /\ ret' = <<FALSE, JNull>>
             /\ UNCHANGED <<weather_data, weather_history, history_seq>>
        ELSE /\ IF rows = {} THEN FetchFromCache(region_name, 0)
                ELSE \E i \in rows : FetchFromCache(region_name, i)
             /\ UNCHANGED <<weather_history, history_seq>>

\* mfin.py line 207: the first name of name_to_id that has the code, "" for
\* None.  The dict's items come in the order of area_name_list.
NameOfCode(region_id) ==
    LET hits == {i \in 1..Len(area_name_list) : name_to_id[area_name_list[i]] = region_id}
    IN  IF hits = {} THEN ""
        ELSE area_name_list[CHOOSE i \in hits : \A j \in hits : i <= j]

\* mfin.py lines 196-216
mfin_fetch_weather_data(region_id, net) ==
    LET parsed_data == IF net.ok THEN mfin_parse_jma_data(net.doc).val ELSE <<>>
        region_name == NameOfCode(region_id)
    IN  /\ IF net.ok /\ region_name # ""
           THEN /\ weather_data' = Put(weather_data, region_name, parsed_data)
                /\ ret' = <<TRUE>>
           ELSE /\ weather_data' = weather_data
                /\ ret' = <<FALSE>>
        /\ UNCHANGED <<weather_history, history_seq>>

FetchWeatherData ==
    /\ now < MaxTime
    /\ now' = now + 1
    /\ \E region_name \in Regions \cap DOMAIN name_to_id, net \in FetchAnswers :
          /\ last_call' = [op |-> "fetch_weather_data", region_id |-> name_to_id[region_name],
                           region_name |-> region_name, net |-> net]
          /\ IF variant = "dbver"
             THEN fetch_weather_data(name_to_id[region_name], region_name, net)
             ELSE mfin_fetch_weather_data(name_to_id[region_name], net)
    /\ UNCHANGED <<variant, codeVars, tempVars, parseVars, registryVars, uiVars, storeVars>>

Next == FetchWeatherData

Spec == Init /\ [][Next]_vars

(***************************************************************************)
(* C10: fetch_weather_data(region_id, region_name) with the request        *)
(* answered and a non-empty normalizer result sets the in-memory cache     *)
(* entry of region_name to that result, appends exactly one row, for       *)
(* region_name and holding that result, to the history table and leaves    *)
(* every earlier row as it was, and returns (True, "online").              *)
(***************************************************************************)
C10_OnlineFetchStoresAndAppends ==
    [][(/\ variant = "dbver"
        /\ last_call'.op = "fetch_weather_data"
        /\ last_call'.net.ok
        /\ _parse_jma_data(last_call'.net.doc).val # <<>>)
          => LET region_name == last_call'.region_name
                 parsed_data == _parse_jma_data(last_call'.net.doc).val
                 n == Len(weather_history)
             IN  /\ region_name \in DOMAIN weather_data'
                 /\ weather_data'[region_name] = parsed_data
                 /\ Len(weather_history') = n + 1
                 /\ SubSeq(weather_history', 1, n) = weather_history
                 /\ weather_history'[n + 1].area_name = region_name
                 /\ json_loads(weather_history'[n + 1].json_data) = parsed_data
                 /\ ret' = <<TRUE, JStr("online")>>]_vars

\* A second online fetch of the same region: the table holds both rows and
\* the cache the later result.
C10_Witness ==
    /\ last_call.op = "fetch_weather_data"
    /\ last_call.net = NetOk(ForecastDoc(C250))
    /\ ret = <<TRUE, JStr("online")>>
    /\ Len(weather_history) = 2
    /\ weather_history[1].area_name = last_call.region_name
    /\ weather_history[2].area_name = last_call.region_name
    /\ json_loads(weather_history[1].json_data) = _parse_jma_data(ForecastDoc(C100)).val
    /\ weather_data[last_call.region_name] = _parse_jma_data(ForecastDoc(C250)).val
    /\ weather_data[last_call.region_name] # _parse_jma_data(ForecastDoc(C100)).val

(***************************************************************************)
(* C11: fetch_weather_data of rewrite_.py with the request failing: when   *)
(* the history table holds a row for region_name, the in-memory cache      *)
(* entry of region_name becomes the payload of a row of greatest           *)
(* fetched_at among them and the call returns (True, that fetched_at);     *)
(* when it holds none, the call returns (False, None).                     *)
(***************************************************************************)
RowsOf(history, area_name) == {i \in 1..Len(history) : history[i].area_name = area_name}

MostRecent(history, area_name) ==
    {i \in RowsOf(history, area_name) :
        \A j \in RowsOf(history, area_name) :
            TimeOf(history[j].fetched_at) <= TimeOf(history[i].fetched_at)}

\* The outcome of a fall back to the snapshots of region_name.
FellBack(region_name) ==
    IF RowsOf(weather_history, region_name) = {}
    THEN ret' = <<FALSE, JNull>>
    ELSE \E i \in MostRecent(weather_history, region_name) :
            /\ region_name \in DOMAIN weather_data'
            /\ weather_data'[region_name] = json_loads(weather_history[i].json_data)
            /\ ret' = <<TRUE, JStr(weather_history[i].fetched_at)>>

\* C11: a failed request of rewrite_.py falls back to the most recent
\* snapshot of the region, or returns (False, None) when there is none.
C11_FailedFetchFallsBack ==
    [][(/\ variant = "dbver"
        /\ last_call'.op = "fetch_weather_data"
        /\ ~last_call'.net.ok)
          => FellBack(last_call'.region_name)]_vars

\* The request fails after two online fetches of the region: the cache
\* holds the later payload and the call returns the later timestamp.
C11_Witness ==
    /\ variant = "dbver"
    /\ last_call.op = "fetch_weather_data"
    /\ ~last_call.net.ok
    /\ Len(weather_history) >= 2
    /\ \A i \in 1..Len(weather_history) : weather_history[i].area_name = last_call.region_name
    /\ json_loads(weather_history[1].json_data) # json_loads(weather_history[2].json_data)
    /\ weather_data[last_call.region_name] = json_loads(weather_history[Len(weather_history)].json_data)
    /\ ret = <<TRUE, JStr(weather_history[Len(weather_history)].fetched_at)>>

\* The request fails and the table has no row of the region.
C11_WitnessNoSnapshot ==
    /\ variant = "dbver"
    /\ last_call.op = "fetch_weather_data"
    /\ ~last_call.net.ok
    /\ weather_history # <<>>
    /\ RowsOf(weather_history, last_call.region_name) = {}
    /\ ret = <<FALSE, JNull>>

(***************************************************************************)
(* C12: a request that succeeds with a document the normalizer turns into  *)
(* the empty list has the outcome of a failed request: it falls back to    *)
(* the snapshots of region_name, with the same return value and the same   *)
(* in-memory cache.                                                        *)
(***************************************************************************)
C12_EmptyParseFallsBack ==
    [][(/\ variant = "dbver"
        /\ last_call'.op = "fetch_weather_data"
        /\ last_call'.net.ok
        /\ _parse_jma_data(last_call'.net.doc).val = <<>>)
          => FellBack(last_call'.region_name)]_vars

(***************************************************************************)
(* Specification SpecApp: a session of WeatherApp, of rewrite_.py or of    *)
(* mfin.py.  The first step is WeatherApp.__init__ past the construction   *)
(* of DataManager; each later step is one event handler run to its end.    *)
(* A control of weather_list_view is a forecast row or the error screen    *)
(* with its Retry button.                                                  *)
(***************************************************************************)
MaxCalls == 3

ForecastRow(sub_area_name, forecasts) ==
    [type |-> "row", area_name |-> sub_area_name, forecasts |-> forecasts, retry |-> ""]

\* rewrite_.py lines 641-661, mfin.py lines 499-521
ErrorScreen(region_name) ==
    [type |-> "error", area_name |-> "", forecasts |-> <<>>, retry |-> region_name]

\* rewrite_.py lines 260-262
get_forecast_data(data, region_name) ==
    IF region_name \in DOMAIN data THEN data[region_name] ELSE <<>>

\* self.data_manager.name_to_id.get(region_name): "" stands for None, which
\* is as false as the empty code.
RegionId(region_name) ==
    IF region_name \in DOMAIN name_to_id THEN name_to_id[region_name] ELSE ""

\* The fetch is made whatever the cache holds: a mutant of NeedsFetch.
NeedsFetch_always(region_name) == TRUE

\* rewrite_.py line 523, mfin.py line 493
NeedsFetch(region_name) == region_name \notin DOMAIN weather_data

Fetches(region_name) == NeedsFetch(region_name) /\ RegionId(region_name) # ""

\* rewrite_.py lines 549-554
RECURSIVE unique_dates(_)
unique_dates(forecasts) ==
    IF forecasts = <<>> THEN <<>>
    ELSE LET front == unique_dates(SubSeq(forecasts, 1, Len(forecasts) - 1))
             day == forecasts[Len(forecasts)].day
         IN  IF \E i \in 1..Len(front) : front[i] = day THEN front ELSE Append(front, day)

\* rewrite_.py lines 545-570
_update_date_dropdown(dd, sub_areas_data) ==
    LET dates == unique_dates(sub_areas_data[1].forecasts)
        known == \E i \in 1..Len(dates) : dates[i] = dd.value
    IN  [value |-> IF ~known /\ dd.value # "All" THEN "All" ELSE dd.value,
         disabled |-> FALSE,
         options |-> <<"All">> \o dates]

\* rewrite_.py lines 581-594
FilteredRows(sub_areas_data, selected_date) ==
    LET filtered(sub_area) ==
            IF selected_date # "" /\ selected_date # "All"
            THEN SelectSeq(sub_area.forecasts, LAMBDA f : f.day = selected_date)
            ELSE sub_area.forecasts
        rows == [i \in 1..Len(sub_areas_data) |->
                    ForecastRow(sub_areas_data[i].area_name, filtered(sub_areas_data[i]))]
    IN  SelectSeq(rows, LAMBDA row : row.forecasts # <<>>)

\* rewrite_.py lines 572-596: the controls after the call.
render_weather_view(controls, dd, data, region_name) ==
    IF get_forecast_data(data, region_name) = <<>> THEN controls
    ELSE FilteredRows(get_forecast_data(data, region_name), dd.value)

\* mfin.py lines 524-530
mfin_rows(data, region_name) ==
    LET sub_areas_data == get_forecast_data(data, region_name)
    IN  [i \in 1..Len(sub_areas_data) |->
            ForecastRow(sub_areas_data[i].area_name, sub_areas_data[i].forecasts)]

\* What fetch_weather_data does besides its assignments, in order; success
\* is the truth of what it returns.
FetchEvents(v, net, success) ==
    IF ~net.ok THEN IF v = "dbver" THEN <<"request", "get_weather_cache">> ELSE <<"request">>
    ELSE IF v = "dbver" /\ success
    THEN <<"request", "response", "save_weather_cache">>
    ELSE <<"request", "response">>

\* rewrite_.py lines 518-543 and mfin.py lines 490-532.  before holds what the
\* handler did ahead of the call.
update_weather_display(region_name, net, before) ==
    /\ current_region_text' = region_name
    /\ IF Fetches(region_name)
       THEN IF variant = "dbver"
            THEN fetch_weather_data(RegionId(region_name), region_name, net)
            ELSE mfin_fetch_weather_data(RegionId(region_name), net)
       ELSE /\ ret' = NoRet
            /\ UNCHANGED <<weather_data, weather_history, history_seq>>
    /\ LET failed == Fetches(region_name) /\ ~ret'[1]
           sub_areas_data == get_forecast_data(weather_data', region_name)
           fetched == IF Fetches(region_name) THEN FetchEvents(variant, net, ret'[1]) ELSE <<>>
       IN  IF failed
           THEN /\ weather_list_view' = <<ErrorScreen(region_name)>>
                /\ date_filter_dd' = IF variant = "dbver"
                                     THEN [date_filter_dd EXCEPT !.disabled = TRUE]
                                     ELSE date_filter_dd
                /\ trace' = before \o fetched \o <<"show_error">>
           ELSE IF variant = "mfin"
           THEN /\ weather_list_view' = mfin_rows(weather_data', region_name)
                /\ date_filter_dd' = date_filter_dd
                /\ trace' = before \o fetched \o <<"render">>
           ELSE IF sub_areas_data = <<>>
           THEN /\ weather_list_view' = weather_list_view
                /\ date_filter_dd' = [date_filter_dd EXCEPT !.disabled = TRUE]
                /\ trace' = before \o fetched
           ELSE /\ date_filter_dd' = _update_date_dropdown(date_filter_dd, sub_areas_data)
                /\ weather_list_view' = render_weather_view(weather_list_view, date_filter_dd',
                                                            weather_data', region_name)
                /\ trace' = before \o fetched \o <<"render">>

\* The answers of the forecast service in a session of the application.
AppAnswers == {NetFail, NetOk(ForecastDoc(C100)), NetOk(<<>>)}

\* An answer is drawn only when the handler makes the request.
AnswersNeeded(region_name) == IF Fetches(region_name) THEN AppAnswers ELSE {NetFail}

\* The favourites table an earlier session left: nothing, a region of the
\* registry, or a region the registry of this session does not list.
PriorFavorites(v) ==
    IF v = "mfin" THEN {<<>>}
    ELSE {<<>>,
          add_saved_area(<<>>, "Osaka-fu", "270000", 0),
          add_saved_area(<<>>, "Kyoto-fu", "260000", 0)}

InitApp ==
    /\ variant \in Variants
    /\ IdleCode
    /\ IdleTemp
    /\ IdleParse
    /\ LoadedRegistry(variant)
    /\ weather_data = EmptyDict
    /\ weather_history \in PriorHistories(variant)
    /\ history_seq = Len(weather_history)
    /\ now = 0
    /\ last_call = NoCall
    /\ ret = NoRet
    /\ saved_areas \in PriorFavorites(variant)
    /\ current_saved_regions = <<>>
    /\ current_region_text = "Area Name"
    /\ weather_list_view = <<>>
    /\ date_filter_dd = NoDateFilter
    /\ trace = <<>>
    /\ app_pc = "start"
    /\ IdleStore

Call(op, region_name, display) == [op |-> op, region_name |-> region_name, display |-> display]

\* rewrite_.py lines 268-286, mfin.py lines 300-309
Start ==
    /\ app_pc = "start"
    /\ app_pc' = "running"
    /\ now' = now + 1
    /\ \E saved_from_db \in (IF variant = "dbver" THEN get_saved_areas(saved_areas) ELSE {<<>>}) :
          LET regions == IF saved_from_db # <<>> THEN saved_from_db ELSE <<"Tokyo-to">>
              seeded == variant = "dbver" /\ saved_from_db = <<>>
              before == (IF variant = "dbver" THEN <<"get_saved_areas">> ELSE <<>>)
                        \o (IF seeded THEN <<"add_saved_area">> ELSE <<>>)
                        \o <<"render_saved_list">>
          IN  /\ current_saved_regions' = regions
              /\ saved_areas' = IF seeded
                                THEN add_saved_area(saved_areas, "Tokyo-to", "130000", now')
                                ELSE saved_areas
              /\ last_call' = Call("__init__", regions[1], TRUE)
              /\ \E net \in AnswersNeeded(regions[1]) :
                    update_weather_display(regions[1], net, before)
    /\ UNCHANGED <<variant, codeVars, tempVars, parseVars, registryVars, storeVars>>

\* The regions a click can pass to update_weather_display: the items of the
\* favourites list and the region of a Retry button on display.
Clickable ==
    {current_saved_regions[i] : i \in 1..Len(current_saved_regions)}
    \cup {weather_list_view[i].retry :
            i \in {j \in 1..Len(weather_list_view) : weather_list_view[j].type = "error"}}

UpdateWeatherDisplay ==
    /\ app_pc = "running"
    /\ now < MaxCalls
    /\ now' = now + 1
    /\ \E region_name \in Clickable :
          /\ last_call' = Call("update_weather_display", region_name, TRUE)
          /\ \E net \in AnswersNeeded(region_name) :
                update_weather_display(region_name, net, <<>>)
    /\ UNCHANGED <<variant, codeVars, tempVars, parseVars, registryVars, storeVars,
                   saved_areas, current_saved_regions, app_pc>>

InList(list, x) == \E i \in 1..Len(list) : list[i] = x

\* rewrite_.py lines 450-461, mfin.py lines 455-467
add_region(region_name, net) ==
    LET present == InList(current_saved_regions, region_name)
    IN  /\ saved_areas' = IF ~present /\ variant = "dbver"
                          THEN add_saved_area(saved_areas, region_name,
                                              RegionId(region_name), now')
                          ELSE saved_areas
        /\ current_saved_regions' = IF present THEN current_saved_regions
                                    ELSE Append(current_saved_regions, region_name)
        /\ update_weather_display(region_name, net,
               IF present THEN <<>>
               ELSE (IF variant = "dbver" THEN <<"add_saved_area">> ELSE <<>>)
                    \o <<"render_saved_list">>)

\* close_search_and_add: the user picks a name of the registry.
AddRegion ==
    /\ app_pc = "running"
    /\ now < MaxCalls
    /\ now' = now + 1
    /\ \E region_name \in Regions \cap {area_name_list[i] : i \in 1..Len(area_name_list)} :
          /\ last_call' = Call("add_region", region_name, TRUE)
          /\ \E net \in AnswersNeeded(region_name) : add_region(region_name, net)
    /\ UNCHANGED <<variant, codeVars, tempVars, parseVars, registryVars, storeVars, app_pc>>

\* list.remove(x): the first occurrence goes.
ListRemove(list, x) ==
    LET k == CHOOSE i \in 1..Len(list) : list[i] = x /\ \A j \in 1..(i - 1) : list[j] # x
    IN  SubSeq(list, 1, k - 1) \o SubSeq(list, k + 1, Len(list))

\* rewrite_.py with the commented-out DELETE of db_manager.py line 114
\* executed and the cache entry dropped with it: a mutant of remove_region.
remove_region_forgetting(region_name) ==
    IF InList(current_saved_regions, region_name)
    THEN /\ saved_areas' = IF variant = "dbver"
                           THEN remove_saved_area(saved_areas, region_name)
                           ELSE saved_areas
         /\ weather_history' = SelectSeq(weather_history, LAMBDA row : row.area_name # region_name)
         /\ weather_data' = [x \in DOMAIN weather_data \ {region_name} |-> weather_data[x]]
         /\ history_seq' = history_seq
         /\ current_saved_regions' = ListRemove(current_saved_regions, region_name)
         /\ IF current_region_text = region_name
            THEN /\ current_region_text' = "Choose one area"
                 /\ weather_list_view' = <<>>
            ELSE UNCHANGED <<current_region_text, weather_list_view>>
         /\ trace' = (IF variant = "dbver" THEN <<"remove_saved_area">> ELSE <<>>)
                     \o <<"render_saved_list">>
                     \o (IF current_region_text = region_name THEN <<"clear">> ELSE <<>>)
    ELSE /\ trace' = <<>>
         /\ UNCHANGED <<saved_areas, current_saved_regions, current_region_text,
                        weather_list_view, weather_data, weather_history, history_seq>>

\* rewrite_.py lines 463-473, mfin.py lines 469-476
remove_region(region_name) ==
    IF InList(current_saved_regions, region_name)
    THEN /\ saved_areas' = IF variant = "dbver"
                           THEN remove_saved_area(saved_areas, region_name)
                           ELSE saved_areas
         /\ current_saved_regions' = ListRemove(current_saved_regions, region_name)
         /\ IF current_region_text = region_name
            THEN /\ current_region_text' = "Choose one area"
                 /\ weather_list_view' = <<>>
            ELSE UNCHANGED <<current_region_text, weather_list_view>>
         /\ trace' = (IF variant = "dbver" THEN <<"remove_saved_area">> ELSE <<>>)
                     \o <<"render_saved_list">>
                     \o (IF current_region_text = region_name THEN <<"clear">> ELSE <<>>)
         /\ UNCHANGED <<weather_data, weather_history, history_seq>>
    ELSE /\ trace' = <<>>
         /\ UNCHANGED <<saved_areas, current_saved_regions, current_region_text,
                        weather_list_view, weather_data, weather_history, history_seq>>

RemoveRegion ==
    /\ app_pc = "running"
    /\ now < MaxCalls
    /\ now' = now + 1
    /\ \E region_name \in {current_saved_regions[i] : i \in 1..Len(current_saved_regions)} :
          /\ last_call' = Call("remove_region", region_name, FALSE)
          /\ remove_region(region_name)
    /\ ret' = NoRet
    /\ UNCHANGED <<variant, codeVars, tempVars, parseVars, registryVars, storeVars,
                   date_filter_dd, app_pc>>

\* rewrite_.py lines 513-516: the user picks another option of the dropdown.
HandleDateFilterChange ==
    /\ app_pc = "running"
    /\ variant = "dbver"
    /\ now < MaxCalls
    /\ now' = now + 1
    /\ ~date_filter_dd.disabled
    /\ \E k \in 1..Len(date_filter_dd.options) :
          /\ date_filter_dd.options[k] # date_filter_dd.value
          /\ date_filter_dd' = [date_filter_dd EXCEPT !.value = date_filter_dd.options[k]]
          /\ last_call' = Call("handle_date_filter_change", current_region_text, FALSE)
    /\ weather_list_view' = render_weather_view(weather_list_view, date_filter_dd',
                                                weather_data, current_region_text)
    /\ trace' = <<"render">>
    /\ ret' = NoRet
    /\ UNCHANGED <<variant, codeVars, tempVars, parseVars, registryVars, storeVars, weather_data,
                   weather_history, history_seq, saved_areas, current_saved_regions,
                   current_region_text, app_pc>>

NextApp ==
    \/ Start
    \/ UpdateWeatherDisplay
    \/ AddRegion
    \/ RemoveRegion
    \/ HandleDateFilterChange

SpecApp == InitApp /\ [][NextApp]_vars

\* The last handler called update_weather_display(region_name).
Displayed(region_name) ==
    app_pc = "running" /\ last_call.display /\ last_call.region_name = region_name

\* The call made the request and fetch_weather_data reported failure.
FetchFailed == InList(trace, "request") /\ ~ret[1]

HasRows == \E i \in 1..Len(weather_list_view) : weather_list_view[i].type = "row"

\* The first half of C13: after a failed fetch the view is the error screen
\* with its Retry button alone, the region is not in weather_data, and Retry
\* is a click that fetches again.
C13_FailureShowsRetry ==
    \A region_name \in DOMAIN name_to_id :
        (app_pc = "running" /\ Displayed(region_name) /\ FetchFailed)
            => /\ weather_list_view = <<ErrorScreen(region_name)>>
               /\ ~HasRows
               /\ region_name \notin DOMAIN weather_data
               /\ region_name \in Clickable
               /\ Fetches(region_name)

\* The second half of C13: no region is stored with an empty forecast list
\* and shown without the error screen.
C13_NoEmptyListAsSuccess ==
    \A region_name \in DOMAIN weather_data :
        ~(/\ weather_data[region_name] = <<>>
          /\ Displayed(region_name)
          /\ \A i \in 1..Len(weather_list_view) : weather_list_view[i].type # "error")

\* C13: whenever a fetch for a region ends in failure, update_weather_display
\* shows the "no data" screen with a Retry action and no forecast row, and
\* leaves the region out of weather_data so that Retry fetches again; and in
\* no variant is an empty forecast list stored and rendered as a success.
C13_FailureIsExplicit == C13_FailureShowsRetry /\ C13_NoEmptyListAsSuccess

\* rewrite_.py alone keeps the second half of C13.
C13_DbverNoEmptyListAsSuccess == variant = "dbver" => C13_NoEmptyListAsSuccess

\* mfin.py after a request answered with a document of no report: the empty
\* list is stored, fetch_weather_data returns True and the view is empty.
C13_EmptyListShown ==
    /\ variant = "mfin"
    /\ Displayed("Tokyo-to")
    /\ "Tokyo-to" \in DOMAIN weather_data
    /\ weather_data["Tokyo-to"] = <<>>
    /\ ret[1]
    /\ weather_list_view = <<>>

\* C14: once a region is in weather_data, it stays there, and no later
\* update_weather_display for it (from a click, from add_region or from
\* Retry, whatever was displayed, added or removed in between) makes a
\* request or reads the history table.
C14_CachedRegionNeverRefetched ==
    [][/\ DOMAIN weather_data \subseteq DOMAIN weather_data'
       /\ \A region_name \in DOMAIN weather_data :
             /\ weather_data'[region_name] = weather_data[region_name]
             /\ (last_call'.display /\ last_call'.region_name = region_name)
                   => /\ ~InList(trace', "request")
                      /\ ~InList(trace', "get_weather_cache")
                      /\ weather_history' = weather_history]_vars

\* A region put in weather_data by an earlier handler is displayed again,
\* another handler having run in between.
C14_Witness ==
    /\ now = MaxCalls
    /\ Displayed("Tokyo-to")
    /\ last_call.op = "update_weather_display"
    /\ "Tokyo-to" \in DOMAIN weather_data
    /\ ~InList(trace, "request")
    /\ HasRows

\* Position of the first occurrence of an event of the handler, 0 when absent.
FirstAt(events, event) ==
    IF InList(events, event)
    THEN CHOOSE i \in 1..Len(events) :
            events[i] = event /\ \A j \in 1..(i - 1) : events[j] # event
    ELSE 0

\* The handler made the request, looked the snapshots up when the request
\* failed (rewrite_.py), and touched the view only after that.
FetchedOrFellBack(events) ==
    /\ InList(events, "request")
    /\ (variant = "dbver" /\ ~InList(events, "response"))
          => FirstAt(events, "get_weather_cache") = FirstAt(events, "request") + 1
    /\ \A i \in 1..Len(events) :
          events[i] \in {"render", "show_error"} => FirstAt(events, "request") < i

\* C15: every update_weather_display for a region that is not in
\* weather_data makes the request, and looks the snapshots up when the
\* request fails, before it updates the display, also for a favourite read
\* from the favourites table whose name the registry does not list.
C15_UncachedRegionFetchesOrFallsBack ==
    [][(last_call'.display /\ last_call'.region_name \notin DOMAIN weather_data)
          => FetchedOrFellBack(trace')]_vars

\* The same for the regions of the registry, which holds.
C15_RegisteredRegionFetchesOrFallsBack ==
    [][(/\ last_call'.display
        /\ last_call'.region_name \notin DOMAIN weather_data
        /\ last_call'.region_name \in DOMAIN name_to_id)
          => FetchedOrFellBack(trace')]_vars

\* A favourite of an earlier session that the registry of this session does
\* not list: the heading names it, nothing was requested or looked up, and
\* the view shows neither rows nor the error screen.
C15_UnregisteredFavoriteShown ==
    /\ variant = "dbver"
    /\ Displayed("Kyoto-fu")
    /\ "Kyoto-fu" \notin DOMAIN name_to_id
    /\ current_region_text = "Kyoto-fu"
    /\ "Kyoto-fu" \notin DOMAIN weather_data
    /\ ~InList(trace, "request")
    /\ ~InList(trace, "get_weather_cache")
    /\ weather_list_view = <<>>

Occurrences(list, x) == Cardinality({i \in 1..Len(list) : list[i] = x})

RowsNamed(table, name) == {i \in 1..Len(table) : table[i].area_name = name}

\* C16: adding a favourite whose name is already present changes nothing:
\* add_region leaves the favourites list and the favourites table as they
\* were, with the name once in the list at its position, and add_saved_area
\* for that name, whatever the code, leaves the table with the one row of
\* the name and its original code.
C16_DuplicateAddIsNoOp ==
    [][(last_call'.op = "add_region"
        /\ InList(current_saved_regions, last_call'.region_name))
          => LET n == last_call'.region_name
             IN  /\ current_saved_regions' = current_saved_regions
                 /\ Occurrences(current_saved_regions', n) = 1
                 /\ saved_areas' = saved_areas
                 /\ variant = "dbver" =>
                       /\ Cardinality(RowsNamed(saved_areas', n)) = 1
                       /\ \A code \in {"", "999999", RegionId(n)} :
                             add_saved_area(saved_areas, n, code, now') = saved_areas]_vars

\* add_region for Osaka-fu, which an earlier add_region of the session put
\* in the list and in the table.
C16_Witness ==
    /\ variant = "dbver"
    /\ app_pc = "running"
    /\ now = MaxCalls
    /\ last_call.op = "add_region"
    /\ last_call.region_name = "Osaka-fu"
    /\ ~InList(trace, "add_saved_area")
    /\ Occurrences(current_saved_regions, "Osaka-fu") = 1
    /\ \E i \in 1..Len(saved_areas) :
          /\ saved_areas[i].area_name = "Osaka-fu"
          /\ saved_areas[i].area_code = "270000"
          /\ saved_areas[i].created_at = SqlTimestamp(MaxCalls - 1)

(***************************************************************************)
(* Specification SpecStore: calls of the methods of WeatherDB on the        *)
(* database file an earlier session left.  Every call takes one tick of    *)
(* the clock datetime.now() reads; CURRENT_TIMESTAMP, which stamps the     *)
(* favourites, counts whole seconds.                                       *)
(***************************************************************************)
MaxStoreCalls == 3

\* Two calls fit in one second of CURRENT_TIMESTAMP.
SecondOf(t) == t \div 2

StoreNames == {"Tokyo-to", "Osaka-fu"}

Payloads == {_parse_jma_data(ForecastDoc(C100)).val, _parse_jma_data(ForecastDoc(C250)).val}

\* The fetched_at a caller passes: a moment before the session, or one after it.
FetchedAts == {IsoFormat(0), IsoFormat(9)}

\* db_manager.py line 135: fetched_at None stands for the current time.
FetchedAtOr(fetched_at, t) == IF fetched_at = "None" THEN IsoFormat(t) ELSE fetched_at

\* db_manager.py lines 199-221: the table after the DELETE at tick t.
delete_old_weather_data(history, days, t) ==
    SelectSeq(history, LAMBDA row : ~(TimeOf(row.fetched_at) < t - days))

\* The retention periods passed to delete_old_weather_data, in ticks.
Days == {0, 2}

CountOf(history, area_name) ==
    Cardinality({i \in 1..Len(history) : history[i].area_name = area_name})

\* The favourites an earlier session left: none, or two added in one second.
PriorTables ==
    {<<>>,
     add_saved_area(add_saved_area(<<>>, "Tokyo-to", "130000", 0), "Osaka-fu", "270000", 0)}

InitStore ==
    /\ variant = "dbver"
    /\ IdleCode
    /\ IdleTemp
    /\ IdleParse
    /\ IdleRegistry
    /\ weather_data = EmptyDict
    /\ weather_history \in PriorHistories("dbver")
    /\ history_seq = Len(weather_history)
    /\ now = 0
    /\ last_call = NoCall
    /\ ret = NoRet
    /\ saved_areas \in PriorTables
    /\ current_saved_regions = <<>>
    /\ current_region_text = "Area Name"
    /\ weather_list_view = <<>>
    /\ date_filter_dd = NoDateFilter
    /\ trace = <<>>
    /\ app_pc = "start"
    /\ db_ret = NoDbRet
    /\ purge_log = [saved |-> [n \in StoreNames |-> CountOf(weather_history, n)],
                    kept |-> [n \in StoreNames |-> 0]]

StoreCall(op, area_name) ==
    [op |-> op, area_name |-> area_name, payload |-> <<>>, fetched_at |-> "None"]

StoreUnchanged ==
    UNCHANGED <<variant, codeVars, tempVars, parseVars, registryVars, weather_data, ret,
                current_saved_regions, current_region_text, weather_list_view,
                date_filter_dd, trace, app_pc>>

AddSavedArea ==
    /\ now < MaxStoreCalls
    /\ now' = now + 1
    /\ \E area_name \in StoreNames :
          /\ last_call' = StoreCall("add_saved_area", area_name)
          /\ saved_areas' = add_saved_area(saved_areas, area_name,
                                           FallbackRegistry.ids[area_name],
                                           SecondOf(now'))
    /\ db_ret' = NoDbRet
    /\ StoreUnchanged
    /\ UNCHANGED <<weather_history, history_seq, purge_log>>

RemoveSavedArea ==
    /\ now < MaxStoreCalls
    /\ now' = now + 1
    /\ \E area_name \in StoreNames :
          /\ last_call' = StoreCall("remove_saved_area", area_name)
          /\ saved_areas' = remove_saved_area(saved_areas, area_name)
    /\ db_ret' = NoDbRet
    /\ StoreUnchanged
    /\ UNCHANGED <<weather_history, history_seq, purge_log>>

GetSavedAreas ==
    /\ now < MaxStoreCalls
    /\ now' = now + 1
    /\ last_call' = StoreCall("get_saved_areas", "")
    /\ \E names \in get_saved_areas(saved_areas) :
          db_ret' = [NoDbRet EXCEPT !.names = names]
    /\ StoreUnchanged
    /\ UNCHANGED <<saved_areas, weather_history, history_seq, purge_log>>

SaveWeatherData ==
    /\ now < MaxStoreCalls
    /\ now' = now + 1
    /\ \E area_name \in StoreNames, parsed_data \in Payloads,
          fetched_at \in {"None"} \cup FetchedAts :
          /\ last_call' = [op |-> "save_weather_data", area_name |-> area_name,
                           payload |-> parsed_data, fetched_at |-> fetched_at]
          /\ weather_history' = save_weather_data(weather_history, history_seq, area_name,
                                                  parsed_data, FetchedAtOr(fetched_at, now'))
          /\ purge_log' = [purge_log EXCEPT !.saved[area_name] = @ + 1]
    /\ history_seq' = history_seq + 1
    /\ db_ret' = NoDbRet
    /\ StoreUnchanged
    /\ UNCHANGED saved_areas

GetLatestWeatherData ==
    /\ now < MaxStoreCalls
    /\ now' = now + 1
    /\ \E area_name \in StoreNames :
          /\ last_call' = StoreCall("get_latest_weather_data", area_name)
          /\ \E i \in (IF LatestRows(weather_history, area_name) = {} THEN {0}
                       ELSE LatestRows(weather_history, area_name)) :
                LET latest == get_latest_weather_data(weather_history, i)
                IN  db_ret' = [NoDbRet EXCEPT !.data = latest.data,
                                              !.timestamp = latest.timestamp,
                                              !.found = latest.found]
    /\ StoreUnchanged
    /\ UNCHANGED <<saved_areas, weather_history, history_seq, purge_log>>

DeleteOldWeatherData ==
    /\ now < MaxStoreCalls
    /\ now' = now + 1
    /\ \E days \in Days :
          /\ last_call' = StoreCall("delete_old_weather_data", "")
          /\ weather_history' = delete_old_weather_data(weather_history, days, now')
    /\ db_ret' = [NoDbRet EXCEPT !.deleted = Len(weather_history) - Len(weather_history')]
    /\ purge_log' = [saved |-> [n \in StoreNames |-> 0],
                     kept |-> [n \in StoreNames |-> CountOf(weather_history', n)]]
    /\ StoreUnchanged
    /\ UNCHANGED <<saved_areas, history_seq>>

NextStore ==
    \/ AddSavedArea
    \/ RemoveSavedArea
    \/ GetSavedAreas
    \/ SaveWeatherData
    \/ GetLatestWeatherData
    \/ DeleteOldWeatherData

SpecStore == InitStore /\ [][NextStore]_vars

\* The names of the favourites table in the order of their insertion.
InsertionOrder(table) == [i \in 1..Len(table) |-> table[i].area_name]

C17_DistinctSecondsInInsertionOrder ==
    (/\ last_call.op = "get_saved_areas"
     /\ \A i, j \in 1..Len(saved_areas) :
           i # j => saved_areas[i].created_at # saved_areas[j].created_at)
        => db_ret.names = InsertionOrder(saved_areas)

\* Tokyo-to was inserted before Osaka-fu, in the same second, and
\* get_saved_areas gives Osaka-fu first.
C17_SameSecondReordered ==
    /\ last_call.op = "get_saved_areas"
    /\ InsertionOrder(saved_areas) = <<"Tokyo-to", "Osaka-fu">>
    /\ saved_areas[1].created_at = saved_areas[2].created_at
    /\ db_ret.names = <<"Osaka-fu", "Tokyo-to">>

\* Rows inserted in different seconds, read back in insertion order.
C17_DistinctSecondsRead ==
    /\ last_call.op = "get_saved_areas"
    /\ Len(saved_areas) = 2
    /\ saved_areas[1].created_at # saved_areas[2].created_at
    /\ db_ret.names = InsertionOrder(saved_areas)

\* A step of save_weather_data put one row at the end of the table and left
\* the rows before it as they were.
SaveAppendsOneRow ==
    last_call'.op = "save_weather_data"
        => /\ Len(weather_history') = Len(weather_history) + 1
           /\ SubSeq(weather_history', 1, Len(weather_history)) = weather_history
           /\ weather_history'[Len(weather_history')].area_name = last_call'.area_name
           /\ json_loads(weather_history'[Len(weather_history')].json_data)
                 = last_call'.payload

\* C18 as stated: every save_weather_data adds exactly one row and leaves
\* every existing row unchanged, and the number of rows of a name is the
\* number of saves for it since the last purge.
C18_RowCountIsSavesSincePurge ==
    [][/\ SaveAppendsOneRow
       /\ \A n \in StoreNames :
             CountOf(weather_history', n) = purge_log'.saved[n]]_vars

\* C18 amended: every save_weather_data adds exactly one row and leaves
\* every existing row unchanged, and the number of rows of a name is the
\* number of saves for it since the last purge plus the number of its rows
\* that purge kept.
C18_RowCountIsSavesPlusKept ==
    [][/\ SaveAppendsOneRow
       /\ \A n \in StoreNames :
             CountOf(weather_history', n) = purge_log'.saved[n] + purge_log'.kept[n]]_vars

\* A save for a name after a purge that kept a row of that name, the table
\* holding a row of the same name and the same fetched_at already.
C18_Witness ==
    /\ last_call.op = "save_weather_data"
    /\ purge_log.kept[last_call.area_name] = 1
    /\ purge_log.saved[last_call.area_name] = 1
    /\ CountOf(weather_history, last_call.area_name) = 2
    /\ weather_history[1].area_name = weather_history[2].area_name
    /\ weather_history[1].fetched_at = weather_history[2].fetched_at

\* get_latest_weather_data(name) follows a save_weather_data for the same name.
LatestFollowsSave ==
    /\ last_call.op = "save_weather_data"
    /\ last_call'.op = "get_latest_weather_data"
    /\ last_call'.area_name = last_call.area_name

\* The row the save put in the table is later than every other row of its name.
SavedRowIsLatest ==
    \A j \in 1..(Len(weather_history) - 1) :
        weather_history[j].area_name = last_call.area_name
            => TimeOf(weather_history[j].fetched_at)
                  < TimeOf(weather_history[Len(weather_history)].fetched_at)

\* C19 as stated: for any prior contents of the table,
\* save_weather_data(name, payload) followed immediately by
\* get_latest_weather_data(name) returns a payload equal to the one saved.
C19_SaveThenLatestRoundTrips ==
    [][(LatestFollowsSave /\ last_call.fetched_at = "None")
          => /\ db_ret'.found
             /\ db_ret'.data = last_call.payload]_vars

\* C19 amended: when no row of the name already in the table has a
\* fetched_at equal to or later than that of the new row (the current time
\* when fetched_at is omitted), save_weather_data followed immediately by
\* get_latest_weather_data(name) returns a payload equal to the one saved,
\* with the fetched_at of the new row.
C19_SaveThenLatestRoundTripsWhenLatest ==
    [][(LatestFollowsSave /\ SavedRowIsLatest)
          => /\ db_ret'.found
             /\ db_ret'.data = last_call.payload
             /\ db_ret'.timestamp
                   = JStr(weather_history[Len(weather_history)].fetched_at)]_vars

\* A save with the default fetched_at on top of an older row of the same
\* name and another payload, read back in the next call.
C19_Witness ==
    /\ last_call.op = "get_latest_weather_data"
    /\ Len(weather_history) = 2
    /\ weather_history[1].area_name = last_call.area_name
    /\ weather_history[2].area_name = last_call.area_name
    /\ weather_history[1].fetched_at = IsoFormat(0)
    /\ weather_history[2].fetched_at = IsoFormat(now - 1)
    /\ json_loads(weather_history[1].json_data) # json_loads(weather_history[2].json_data)
    /\ db_ret.found
    /\ db_ret.data = json_loads(weather_history[2].json_data)
    /\ db_ret.data \in Payloads

\* The row saved with the default fetched_at is not the one read back: the
\* table held a row of the name with a later fetched_at.
C19_LaterRowReadBack ==
    /\ last_call.op = "get_latest_weather_data"
    /\ Len(weather_history) = 2
    /\ weather_history[1].area_name = last_call.area_name
    /\ weather_history[2].area_name = last_call.area_name
    /\ weather_history[1].fetched_at = IsoFormat(9)
    /\ weather_history[2].fetched_at = IsoFormat(now - 1)
    /\ db_ret.data = json_loads(weather_history[1].json_data)
    /\ db_ret.data # json_loads(weather_history[2].json_data)

\* C20: get_latest_weather_data(name) returns (None, None) when the table
\* holds no row of name, and otherwise the payload and the fetched_at of a
\* row of name whose fetched_at is greatest among the rows of name, whatever
\* the rows of other names are.
C20_LatestIsGreatestOfName ==
    last_call.op = "get_latest_weather_data"
        => LET rows == RowsOf(weather_history, last_call.area_name)
           IN  IF rows = {}
               THEN ~db_ret.found /\ db_ret.data = <<>> /\ db_ret.timestamp = JNull
               ELSE /\ db_ret.found
                    /\ \E i \in rows :
                          /\ \A j \in rows : TimeOf(weather_history[j].fetched_at)
                                                <= TimeOf(weather_history[i].fetched_at)
                          /\ db_ret.data = json_loads(weather_history[i].json_data)
                          /\ db_ret.timestamp = JStr(weather_history[i].fetched_at)

\* The table holds a row of the name asked for and a later row of another
\* name with another payload.
C20_Witness ==
    /\ last_call.op = "get_latest_weather_data"
    /\ Len(weather_history) = 2
    /\ weather_history[1].area_name = last_call.area_name
    /\ weather_history[2].area_name # last_call.area_name
    /\ TimeOf(weather_history[1].fetched_at) < TimeOf(weather_history[2].fetched_at)
    /\ weather_history[1].json_data # weather_history[2].json_data
    /\ db_ret.found
    /\ db_ret.timestamp = JStr(weather_history[1].fetched_at)

\* The table holds no row of the name asked for, and one of another name.
C20_WitnessNoRow ==
    /\ last_call.op = "get_latest_weather_data"
    /\ Len(weather_history) = 1
    /\ weather_history[1].area_name # last_call.area_name
    /\ ~db_ret.found

\* The step is the registry load of rewrite_.py.
LoadsRegistry == variant = "dbver" /\ load_pc = "start" /\ load_pc' = "loaded"

\* The registry after the step is the one of the hardcoded fallback map.
FallbackUsed ==
    area_name_list' = FallbackRegistry.names /\ name_to_id' = FallbackRegistry.ids

\* The cache file is written only after a successful request: with the
\* document fetched, or left unreadable by a write that breaks off.
WrittenAfterFetch ==
    cache_file' # cache_file
        => /\ area_net'.ok
           /\ cache_file' \in {Readable(area_net'.doc), Unreadable}

\* C21 as stated: the registry load requests the network only if the cache
\* file is absent or unreadable, uses the fallback map only if both the
\* cache file and the request failed, and writes the cache file only after
\* a successful request and with the fetched document.
C21_SourcesInOrderAsStated ==
    [][LoadsRegistry
          => /\ area_net' # NoRequest => cache_file.state \in {"absent", "unreadable"}
             /\ FallbackUsed => (cache_file.state \in {"absent", "unreadable"}
                                 /\ ~area_net'.ok)
             /\ WrittenAfterFetch]_vars

\* json.load gave no value: the file is absent, unreadable or holds null.
CacheGaveNothing ==
    \/ cache_file.state \in {"absent", "unreadable"}
    \/ (cache_file.state = "readable" /\ cache_file.content = JNull)

\* C21 amended: the network is requested only if the cache file is absent,
\* unreadable or holds null; the fallback map is used only if the cache gave
\* nothing and the request failed or was answered with null; the cache file
\* is written only after a successful request, with the fetched document
\* when the write completes.
C21_SourcesInOrder ==
    [][LoadsRegistry
          => /\ area_net' # NoRequest => CacheGaveNothing
             /\ FallbackUsed => /\ CacheGaveNothing
                                /\ area_net' # NoRequest
                                /\ (~area_net'.ok \/ area_net'.doc = JNull)
             /\ WrittenAfterFetch]_vars

\* The request was made and answered with a registry, which the cache file
\* now holds and the session uses.
C21_Witness ==
    /\ variant = "dbver"
    /\ load_pc = "loaded"
    /\ area_net.ok
    /\ area_net.doc # JNull
    /\ cache_file = Readable(area_net.doc)
    /\ area_name_list = <<"Osaka-fu", "Tokyo-to">>

\* No request was made: the cache file gave the registry.
C21_WitnessFromCache ==
    /\ variant = "dbver"
    /\ load_pc = "loaded"
    /\ area_net = NoRequest
    /\ cache_file.state = "readable"
    /\ area_name_list = <<"Osaka-fu", "Tokyo-to">>

\* The request failed after a cache file that could not be read.
C21_WitnessFallback ==
    /\ variant = "dbver"
    /\ load_pc = "loaded"
    /\ area_net = NetFail
    /\ cache_file = Unreadable
    /\ area_name_list = FallbackRegistry.names

\* The handler did first before it did second, and did both.
Before(events, first, second) ==
    /\ 0 < FirstAt(events, first)
    /\ FirstAt(events, first) < FirstAt(events, second)

\* C22: in add_region and remove_region of rewrite_.py the favourites table
\* is changed before the favourites list is rendered again, and after the
\* handler the table holds the added name, or no longer holds the removed one.
C22_PersistedBeforeRender ==
    [][variant = "dbver"
          => /\ last_call'.op = "add_region"
                   => /\ RowsNamed(saved_areas', last_call'.region_name) # {}
                      /\ InList(trace', "render_saved_list")
                            => Before(trace', "add_saved_area", "render_saved_list")
             /\ last_call'.op = "remove_region"
                   => /\ RowsNamed(saved_areas', last_call'.region_name) = {}
                      /\ Before(trace', "remove_saved_area", "render_saved_list")]_vars

\* add_region has put a new name in the table and in the list.
C22_Witness ==
    /\ variant = "dbver"
    /\ app_pc = "running"
    /\ last_call.op = "add_region"
    /\ Before(trace, "add_saved_area", "render_saved_list")
    /\ saved_areas[Len(saved_areas)].area_name = last_call.region_name
    /\ saved_areas[Len(saved_areas)].created_at = SqlTimestamp(now)
    /\ current_saved_regions[Len(current_saved_regions)] = last_call.region_name

\* remove_region has taken a name out of the table, in which it was.
C22_WitnessRemoved ==
    /\ variant = "dbver"
    /\ app_pc = "running"
    /\ last_call.op = "remove_region"
    /\ Before(trace, "remove_saved_area", "render_saved_list")
    /\ RowsNamed(saved_areas, last_call.region_name) = {}
    /\ ~InList(current_saved_regions, last_call.region_name)

\* The weekly temperature entry and the short-term temperatures the
\* document holds at position i (counted from 1), None and [] when it holds
\* none there.
WeeklyTempsAt(i) ==
    IF i <= Len(TsTempAreas) THEN WeeklyTempEntry(TsTempAreas[i]).val ELSE [type |-> "None"]

ShortTempsAt(i) ==
    LET short == ShortTermTempsMap(in_raw_json[1]).val
    IN  IF i <= Len(short) THEN short[i] ELSE <<>>

\* A non-empty list was returned: the document has a weather series and
\* every key the normalizer read.
ParsedSome == Returned(parsed_result) /\ parsed_result.val # <<>>

\* C23: the temperature of the subregion at position i of the weather
\* series is the one formatted from the area at position i of the weekly
\* temperature series and the list at position i of the short-term table,
\* whatever the names of the areas are; a subregion whose position has no
\* area in the weekly temperature series gets "--" at every step.
C23_TemperatureByPosition ==
    ParsedSome
        => \A i \in 1..Len(parsed_result.val) :
              \A k \in 1..Len(parsed_result.val[i].forecasts) :
                 /\ parsed_result.val[i].forecasts[k].temp
                       = DisplayTemp(variant, WeeklyTempsAt(i), ShortTempsAt(i), k - 1).val
                 /\ i > Len(TsTempAreas) => parsed_result.val[i].forecasts[k].temp = "--"

\* The temperature series names its areas in the other order than the
\* weather series does: subregion A gets the temperatures of the first
\* area, named B, and subregion B those of the second, which has no name.
C23_Witness ==
    /\ ParsedSome
    /\ Len(parsed_result.val) = 2
    /\ parsed_result.val[1].area_name = "A"
    /\ parsed_result.val[2].area_name = "B"
    /\ Len(TsTempAreas) = 2
    /\ TsTempAreas[1].area.name = "B"
    /\ ~HasKey(TsTempAreas[2], "area")
    /\ Len(parsed_result.val[1].forecasts) = MaxSteps
    /\ Len(parsed_result.val[2].forecasts) = MaxSteps
    /\ parsed_result.val[1].forecasts[1].temp = "7" \o Degree
    /\ parsed_result.val[2].forecasts[1].temp = "5-10" \o Degree

\* The weather series has two areas and the temperature series one: the
\* second subregion has "--" at every step.
C23_WitnessNoEntry ==
    /\ ParsedSome
    /\ Len(parsed_result.val) = 2
    /\ Len(TsTempAreas) = 1
    /\ Len(parsed_result.val[2].forecasts) = MaxSteps
    /\ \A k \in 1..MaxSteps : parsed_result.val[2].forecasts[k].temp = "--"
    /\ Len(parsed_result.val[1].forecasts) = MaxSteps
    /\ parsed_result.val[1].forecasts[1].temp # "--"

\* The text of a daily value: "--" for the empty string, the number 0 and
\* null, the value followed by the unit for everything else, the string "0"
\* included.
C24_Expected(v) ==
    IF v = JStr("") \/ v = JInt(0) \/ v = JNull THEN "--" ELSE PyStr(v) \o Degree

DailySingle(i) == i <= Len(TsTempAreas) /\ ~HasKey(TsTempAreas[i], "tempsMin")

\* C24: for a subregion whose temperature area has no "tempsMin", the display
\* temperature at each step is "v°C" when the value v of that step is
\* non-empty and not the number zero, and "--" otherwise, whatever the
\* short-term table holds.
C24_DailySingleTemperature ==
    ParsedSome
        => \A i \in 1..Len(parsed_result.val) :
              DailySingle(i)
                 => \A k \in 1..Len(parsed_result.val[i].forecasts) :
                       parsed_result.val[i].forecasts[k].temp
                          = C24_Expected(TsTempAreas[i].temps[k])

\* The first value is empty and the short-term table holds two values for
\* the subregion: step 0 shows "--", the next step "7°C".
C24_Witness ==
    /\ ParsedSome
    /\ DailySingle(1)
    /\ Len(ShortTempsAt(1)) = 2
    /\ Len(parsed_result.val[1].forecasts) = MaxSteps
    /\ TsTempAreas[1].temps[1] = JStr("")
    /\ parsed_result.val[1].forecasts[1].temp = "--"
    /\ parsed_result.val[1].forecasts[2].temp = "7" \o Degree

\* The string "0" is shown as "0°C", the number 0 as "--".
C24_WitnessZero ==
    /\ ParsedSome
    /\ DailySingle(1)
    /\ Len(parsed_result.val[1].forecasts) = MaxSteps
    /\ TsTempAreas[1].temps[1] = JStr("0")
    /\ TsTempAreas[1].temps[2] = JInt(0)
    /\ parsed_result.val[1].forecasts[1].temp = "0" \o Degree
    /\ parsed_result.val[1].forecasts[2].temp = "--"

\* C25: a non-empty result of the normalizer has one SubregionForecast for
\* each area of the weather series, in the order of the series and with the
\* name of its area, and the entry at step k of every subregion carries the
\* label "month/day" of the k-th entry of timeDefines.
C25_OneSubregionPerWeatherArea ==
    (Returned(parsed_result) /\ parsed_result.val # <<>>)
        => /\ HasWeatherSeries
           /\ Len(parsed_result.val) = Len(TsWeather.areas)
           /\ \A i \in 1..Len(parsed_result.val) :
                 /\ parsed_result.val[i].area_name = TsWeather.areas[i].area.name
                 /\ \A k \in 1..Len(parsed_result.val[i].forecasts) :
                       parsed_result.val[i].forecasts[k].day
                          = ToString(TsWeather.timeDefines[k].month) \o "/"
                               \o ToString(TsWeather.timeDefines[k].day)

\* Two weather areas A and B over the dates January 31 and February 1: the
\* result is the subregion A followed by B, each with the labels "1/31" and
\* "2/1".
C25_Witness ==
    /\ Returned(parsed_result)
    /\ Len(parsed_result.val) = 2
    /\ Len(TsWeather.areas) = 2
    /\ parsed_result.val[1].area_name = "A"
    /\ parsed_result.val[2].area_name = "B"
    /\ \A i \in 1..2 :
          /\ Len(parsed_result.val[i].forecasts) >= 2
          /\ parsed_result.val[i].forecasts[1].day = "1/31"
          /\ parsed_result.val[i].forecasts[2].day = "2/1"

\* C26: in rewrite_.py every value of the in-memory weather cache is a
\* non-empty list, after any sequence of fetches: no region is in the cache
\* with an empty forecast.
C26_CacheValuesNonEmpty ==
    variant = "dbver" => \A region_name \in DOMAIN weather_data : weather_data[region_name] # <<>>

\* A request answered with a document the normalizer turns into [] for a
\* region with no snapshot: the call returns (False, None) and the region is
\* not in the cache, which holds another region.
C26_Witness ==
    /\ variant = "dbver"
    /\ last_call.op = "fetch_weather_data"
    /\ last_call.net.ok
    /\ _parse_jma_data(last_call.net.doc).val = <<>>
    /\ ret = <<FALSE, JNull>>
    /\ last_call.region_name \notin DOMAIN weather_data
    /\ DOMAIN weather_data # {}

\* The cache holds one region from an answered request and one from a
\* snapshot of the history table.
C26_WitnessBothSources ==
    /\ variant = "dbver"
    /\ DOMAIN weather_data = Regions
    /\ last_call.op = "fetch_weather_data"
    /\ ~last_call.net.ok
    /\ ret[1]
    /\ \E region_name \in Regions : weather_data[region_name] = _parse_jma_data(ForecastDoc(C250)).val

\* The frame of one fetch_weather_data call of rewrite_.py: nothing is
\* appended to the history table unless the call returns (True, "online"),
\* the cache is as before when it returns (False, None), and the region is
\* in the cache when it returns (True, _).
FetchFrame ==
    LET region_name == last_call'.region_name
    IN  /\ ret' # <<TRUE, JStr("online")>> => weather_history' = weather_history
        /\ ret' = <<FALSE, JNull>> => weather_data' = weather_data
        /\ ret'[1] => region_name \in DOMAIN weather_data'

\* C27, as stated: with the frame above, the call returns (True, _) exactly
\* when region_name is in the in-memory cache after it.
C27_TrueIffCachedAfter ==
    [][(variant = "dbver" /\ last_call'.op = "fetch_weather_data")
          => /\ FetchFrame
             /\ ret'[1] <=> last_call'.region_name \in DOMAIN weather_data']_vars

\* C27: a fetch_weather_data call that does not return (True, "online")
\* appends nothing to the history table, a call that returns (False, None)
\* leaves the in-memory cache unchanged, and a call for a region that was not
\* in the cache returns (True, _) exactly when the region is in the cache
\* after it.
C27_TrueIffCachedAfterWhenUncached ==
    [][(variant = "dbver" /\ last_call'.op = "fetch_weather_data")
          => /\ FetchFrame
             /\ last_call'.region_name \notin DOMAIN weather_data
                   => (ret'[1] <=> last_call'.region_name \in DOMAIN weather_data')]_vars

\* A failed request for a region with no snapshot, while the table and the
\* cache hold another region: (False, None), and the region is not cached.
C27_Witness ==
    /\ variant = "dbver"
    /\ last_call.op = "fetch_weather_data"
    /\ ~last_call.net.ok
    /\ ret = <<FALSE, JNull>>
    /\ weather_history # <<>>
    /\ DOMAIN weather_data # {}
    /\ last_call.region_name \notin DOMAIN weather_data

\* A call that returned (False, None) for a region the cache holds from an
\* earlier call.
C27_WitnessStale ==
    /\ variant = "dbver"
    /\ last_call.op = "fetch_weather_data"
    /\ ret = <<FALSE, JNull>>
    /\ last_call.region_name \in DOMAIN weather_data

\* C28: in rewrite_.py remove_region, with the remove_saved_area it calls,
\* leaves the history table and the in-memory cache as they were, so the
\* snapshot get_latest_weather_data gives for the name is the one it gave
\* before; and add_region for a region the cache holds shows the cached
\* forecast without a request.
C28_RemoveKeepsHistoryAndCache ==
    [][variant = "dbver"
          => LET region_name == last_call'.region_name
             IN  /\ last_call'.op = "remove_region"
                    => /\ weather_history' = weather_history
                       /\ weather_data' = weather_data
                       /\ {get_latest_weather_data(weather_history', i) :
                              i \in LatestRows(weather_history', region_name)}
                             = {get_latest_weather_data(weather_history, i) :
                                  i \in LatestRows(weather_history, region_name)}
                 /\ (last_call'.op = "add_region" /\ region_name \in DOMAIN weather_data)
                    => /\ ~InList(trace', "request")
                       /\ weather_data' = weather_data
                       /\ weather_history' = weather_history
                       /\ weather_list_view'
                             = FilteredRows(weather_data[region_name], date_filter_dd'.value)]_vars

\* The region was fetched and shown, removed from the favourites and added
\* again: it is back in the list and in the table, its forecast is on
\* display, and the handler made no request.
C28_Witness ==
    /\ variant = "dbver"
    /\ app_pc = "running"
    /\ last_call.op = "add_region"
    /\ InList(trace, "add_saved_area")
    /\ ~InList(trace, "request")
    /\ last_call.region_name \in DOMAIN weather_data
    /\ RowsOf(weather_history, last_call.region_name) # {}
    /\ weather_list_view # <<>>
    /\ weather_list_view[1].type = "row"
    /\ weather_list_view[1].forecasts = weather_data[last_call.region_name][1].forecasts

\* The region removed is in the cache and has a snapshot in the table.
C28_WitnessRemoved ==
    /\ variant = "dbver"
    /\ app_pc = "running"
    /\ last_call.op = "remove_region"
    /\ ~InList(current_saved_regions, last_call.region_name)
    /\ last_call.region_name \in DOMAIN weather_data
    /\ RowsOf(weather_history, last_call.region_name) # {}

NamesOf(table) == {table[i].area_name : i \in 1..Len(table)}

\* C29: in rewrite_.py, after the start and after every add_region and
\* remove_region, the favourites list has no name twice and holds exactly
\* the names of the favourites table; the start seeds an empty table with
\* Tokyo-to / "130000", so that the list is not empty after it.
C29_ListMatchesTable ==
    (variant = "dbver" /\ app_pc = "running")
        => /\ \A i, j \in 1..Len(current_saved_regions) :
                 current_saved_regions[i] = current_saved_regions[j] => i = j
           /\ {current_saved_regions[i] : i \in 1..Len(current_saved_regions)}
                 = NamesOf(saved_areas)
           /\ Len(saved_areas) = Len(current_saved_regions)
           /\ last_call.op = "__init__"
                 => /\ current_saved_regions # <<>>
                    /\ InList(trace, "add_saved_area")
                          => /\ current_saved_regions = <<"Tokyo-to">>
                             /\ Len(saved_areas) = 1
                             /\ saved_areas[1].area_name = "Tokyo-to"
                             /\ saved_areas[1].area_code = "130000"

\* The table was empty at the start and was seeded, a region was added and
\* the seeded one removed: list and table hold the added region alone.
C29_Witness ==
    /\ variant = "dbver"
    /\ app_pc = "running"
    /\ last_call.op = "remove_region"
    /\ last_call.region_name = "Tokyo-to"
    /\ current_saved_regions = <<"Osaka-fu">>
    /\ Len(saved_areas) = 1
    /\ saved_areas[1].area_name = "Osaka-fu"
    /\ saved_areas[1].created_at # SqlTimestamp(0)

\* The start with an empty table.
C29_WitnessSeeded ==
    /\ variant = "dbver"
    /\ app_pc = "running"
    /\ last_call.op = "__init__"
    /\ InList(trace, "add_saved_area")
    /\ current_saved_regions = <<"Tokyo-to">>
    /\ saved_areas[1].area_code = "130000"

\* The last favourite was removed: list and table are empty.
C29_WitnessEmptied ==
    /\ variant = "dbver"
    /\ app_pc = "running"
    /\ last_call.op = "remove_region"
    /\ current_saved_regions = <<>>
    /\ saved_areas = <<>>

\* The series of a list a test picks: the index of the first and of the
\* last series that passes it, 0 when none does.
FirstIndex(ts, P(_)) ==
    LET hits == {i \in 1..Len(ts) : P(ts[i])}
    IN  IF hits = {} THEN 0 ELSE CHOOSE i \in hits : \A j \in hits : i <= j

LastIndex(ts, P(_)) ==
    LET hits == {i \in 1..Len(ts) : P(ts[i])}
    IN  IF hits = {} THEN 0 ELSE CHOOSE i \in hits : \A j \in hits : j <= i

FirstAreaHas(series, k) ==
    HasKey(series, "areas") /\ series.areas # <<>> /\ HasKey(series.areas[1], k)

IsShortTemps(series) == FirstAreaHas(series, "temps")

IsWeather(series) == FirstAreaHas(series, "weatherCodes")

IsTemp(series) ==
    /\ ~FirstAreaHas(series, "weatherCodes")
    /\ FirstAreaHas(series, "temps") \/ FirstAreaHas(series, "tempsMin")

\* The document cut down to the series the claim names: the first temps
\* series of report 0 as the short-term report, and the last weather series
\* and the last temperature series of the weekly report as the weekly one.
SelectedDocument ==
    LET rs == in_raw_json[1].timeSeries
        rw == WeeklyReport.timeSeries
        s == FirstIndex(rs, IsShortTemps)
        w == LastIndex(rw, IsWeather)
        t == LastIndex(rw, IsTemp)
    IN  <<[timeSeries |-> IF s = 0 THEN <<>> ELSE <<rs[s]>>],
          [timeSeries |-> (IF w = 0 THEN <<>> ELSE <<rw[w]>>) \o (IF t = 0 THEN <<>> ELSE <<rw[t]>>)]>>

\* C30: the normalizer reads three series of the document and no other: the
\* first series of report 0 whose first area has "temps" as the short-term
\* table, and in the weekly report, which is report 0 when the document has
\* one report, the last series whose first area has "weatherCodes" as the
\* weather series and the last series whose first area has "temps" or
\* "tempsMin" but not "weatherCodes" as the temperature series.  Its result
\* is the result for the document made of those series alone.
C30_SeriesSelection ==
    (/\ parsed_result # NoParsedResult
     /\ in_raw_json # <<>>
     /\ HasKey(in_raw_json[1], "timeSeries")
     /\ HasKey(WeeklyReport, "timeSeries"))
        => parsed_result = ParseJmaData(variant, SelectedDocument)

\* Two weather series and three temps series in the short-term report: the
\* subregion is that of the later weather series, B, and its step 0 shows
\* the value of the first temps series of report 0.
C30_Witness ==
    /\ in_raw_json = <<[timeSeries |-> <<WeatherA, ShortOne, ShortTwo>>],
                       [timeSeries |-> <<WeatherA, WeatherB, TempWeekly>>]>>
    /\ Returned(parsed_result)
    /\ Len(parsed_result.val) = 1
    /\ parsed_result.val[1].area_name = "B"
    /\ parsed_result.val[1].forecasts[1].status = "kumori"
    /\ parsed_result.val[1].forecasts[1].temp = "3" \o Degree
    /\ parsed_result.val[1].forecasts[2].temp = "5-10" \o Degree

\* Two temperature series around the weather series: the later one, the
\* daily one, gives the temperatures.
C30_WitnessLastTemp ==
    /\ in_raw_json = <<[timeSeries |-> <<ShortTwo, ShortOne>>],
                       [timeSeries |-> <<TempWeekly, WeatherA, TempDaily>>]>>
    /\ Returned(parsed_result)
    /\ Len(parsed_result.val) = 1
    /\ parsed_result.val[1].area_name = "A"
    /\ parsed_result.val[1].forecasts[1].temp = "7" \o Degree

\* One report: its daily series is the short-term table and its last
\* temperature series, the weekly one, the temperature series.
C30_WitnessOneReport ==
    /\ in_raw_json = <<[timeSeries |-> <<TempDaily, WeatherA, TempWeekly>>]>>
    /\ Returned(parsed_result)
    /\ Len(parsed_result.val) = 1
    /\ parsed_result.val[1].forecasts[1].temp = "7-7" \o Degree
    /\ parsed_result.val[1].forecasts[2].temp = "5-10" \o Degree

=============================================================================
